---- MODULE Spec2Model ----
(***************************************************************************)
(* hono-idempotency: the Idempotency-Key middleware (src/middleware.ts)    *)
(* running over the in-memory store (src/stores/memory.ts).                *)
(*                                                                         *)
(* Every request is a task that is suspended at each await; a step of the  *)
(* model is the synchronous code between two suspension points that touch  *)
(* the store.  Strings are sequences of one-character strings, so that     *)
(* concatenation and encodeURIComponent are computed, not assumed.         *)
(* Records are objects with identity (heap): memoryStore.get hands out the *)
(* stored object itself and memoryStore.complete mutates it in place.      *)
(***************************************************************************)
EXTENDS Integers, Sequences, FiniteSets, TLC

VARIABLES now, map, heap, pc, input, fp, storeKey, existing, ran, outcome, resp,
          calls, hooks, options,
          store, ttl, maxSize, task, d1, client, kv, storage

vars == <<now, map, heap, pc, input, fp, storeKey, existing, ran, outcome, resp,
          calls, hooks, options,
          store, ttl, maxSize, task, d1, client, kv, storage>>

\* the store in use and its options; the tasks that call a store directly;
\* the D1 table, the Redis client's data, the KV namespace and the Durable
\* Object storage behind the other stores
storeVars == <<store, ttl, maxSize, task, d1, client, kv, storage>>

\* the state of the middleware's requests: where each is suspended, what it
\* has computed, the store methods and the hooks it has called so far, and
\* the options the middleware was created with
requestVars == <<pc, input, fp, storeKey, existing, ran, outcome, resp,
                 calls, hooks, options>>

(***************************************************************************)
(* Bounds and configuration                                                *)
(***************************************************************************)
\* number of requests sent through the middleware
NReq == 2
\* the clock (Date.now()) runs from 0 to MaxTime
MaxTime == 1
\* memoryStore({ ttl, maxSize }): the options the store is built with
Ttl == 1
MaxSize == 1

Req == 1..NReq
\* object id of a record inserted by a direct store.lock call
DirectObj == NReq + 1
Obj == 1..DirectObj

(***************************************************************************)
(* Strings                                                                 *)
(***************************************************************************)
COLON == <<":">>
POST == <<"P", "O", "S", "T">>
PATCH == <<"P", "A", "T", "C", "H">>
PathD == <<"/", "d">>
PathE == <<"/", "e">>
KeyY == <<"y">>
\* "x:POST:/d:y" and "a:POST:/d:x": the crafted key and tenant of the
\* store key safety test
KeyCrafted == <<"x">> \o COLON \o POST \o COLON \o PathD \o COLON \o <<"y">>
PrefixA == <<"a">>
PrefixCrafted == <<"a">> \o COLON \o POST \o COLON \o PathD \o COLON \o <<"x">>
NoPrefix == <<>>
Body1 == <<"1">>
Body2 == <<"2">>

\* encodeURIComponent on one character: the unreserved characters stay,
\* every other character becomes its percent escape
EncodeChar(ch) ==
    CASE ch = ":" -> <<"%", "3", "A">>
      [] ch = "/" -> <<"%", "2", "F">>
      [] ch = "%" -> <<"%", "2", "5">>
      [] OTHER -> <<ch>>

RECURSIVE EncodeRec(_)
EncodeRec(s) ==
    IF s = <<>> THEN <<>> ELSE EncodeChar(Head(s)) \o EncodeRec(Tail(s))

NoEncode(s) == s

encodeURIComponent(s) == EncodeRec(s)

(***************************************************************************)
(* Requests and responses                                                  *)
(***************************************************************************)
\* the requests a client may send: the base request (tenant "a" with the
\* crafted key), the same with another body, and the crafted tenant with
\* the plain key
Inputs ==
    { [prefix |-> PrefixA, method |-> POST, path |-> PathD, key |-> KeyCrafted, body |-> Body1],
      [prefix |-> PrefixA, method |-> POST, path |-> PathD, key |-> KeyCrafted, body |-> Body2],
      [prefix |-> PrefixCrafted, method |-> POST, path |-> PathD, key |-> KeyY, body |-> Body1] }

NoInput == [prefix |-> <<>>, method |-> <<>>, path |-> <<>>, key |-> <<>>, body |-> <<>>]

\* a response: status, headers (a set of <<name, value>> pairs), body
NoResponse == [status |-> 0, headers |-> {}, body |-> <<"", 0>>]

\* the Headers class keeps header names in lower case
Lower(name) ==
    CASE name = "Content-Type" -> "content-type"
      [] name = "Set-Cookie" -> "set-cookie"
      [] name = "SET-COOKIE" -> "set-cookie"
      [] name = "Retry-After" -> "retry-after"
      [] name = "Idempotency-Replayed" -> "idempotency-replayed"
      [] OTHER -> name

Headers(init) == { <<Lower(p[1]), p[2]>> : p \in init }

HeadersSet(h, name, value) ==
    { p \in h : p[1] # Lower(name) } \cup { <<Lower(name), value>> }

Response(body, status, headers) ==
    [status |-> status, headers |-> Headers(headers), body |-> body]

\* what the wrapped handler of request r may do: return a response
\* (c.res) or throw
HandlerResults(r) ==
    { [threw |-> FALSE,
       res |-> Response(<<"hello", r>>, 201,
                        {<<"Content-Type", "text/plain">>, <<"Set-Cookie", "session">>})] }
    \cup { [threw |-> FALSE,
            res |-> Response(<<"error", r>>, 500, {<<"Content-Type", "text/plain">>})] }
    \cup { [threw |-> TRUE, res |-> NoResponse] }

(***************************************************************************)
(* src/errors.ts                                                           *)
(***************************************************************************)
conflict == [status |-> 409, code |-> "CONFLICT"]

fingerprintMismatch == [status |-> 422, code |-> "FINGERPRINT_MISMATCH"]

missingKey == [status |-> 400, code |-> "MISSING_KEY"]

keyTooLong == [status |-> 400, code |-> "KEY_TOO_LONG"]

bodyTooLarge == [status |-> 413, code |-> "BODY_TOO_LARGE"]

clampHttpStatus(status) ==
    IF status < 200 \/ status > 599 THEN 500 ELSE status

\* a clamp without the upper limit
clampNumberNoUpper(status) ==
    IF status.nan \/ status.val < 200 THEN 500 ELSE status.val

\* clampHttpStatus on a number that may be NaN: Number.isNaN(status), then
\* the comparisons
clampNumber(status) ==
    IF status.nan THEN 500 ELSE clampHttpStatus(status.val)

\* the statuses a Response with a body cannot have (null body statuses of
\* the Fetch standard within 200..599)
NullBodyStatuses == {204, 205, 304}

\* new Response(body, { status, headers }) with a string body: a RangeError
\* for a status outside 200..599, a TypeError for a null body status
newResponse(body, status, headers) ==
    IF status < 200 \/ status > 599
    THEN [threw |-> "RangeError", res |-> NoResponse]
    ELSE IF status \in NullBodyStatuses
    THEN [threw |-> "TypeError", res |-> NoResponse]
    ELSE [threw |-> "no", res |-> Response(body, status, headers)]

\* the body problemResponse falls back to
FallbackBody == <<"Internal Server Error", 500>>

\* problemResponse(problem, extraHeaders); stringifies: JSON.stringify
\* (problem) returns
problemResponseOf(problem, extraHeaders, stringifies) ==
    LET body == IF stringifies THEN <<problem.code, 0>> ELSE FallbackBody
        status == IF stringifies THEN clampNumber(problem.status) ELSE 500
    IN  newResponse(body, status,
                    {<<"Content-Type", "application/problem+json">>} \cup extraHeaders)

\* a number that is not NaN, and NaN
Num(i) == [nan |-> FALSE, val |-> i]

NaN == [nan |-> TRUE, val |-> 0]

\* problemResponse on the problems of IdempotencyErrors
problemResponse(problem, extraHeaders) ==
    problemResponseOf([status |-> Num(problem.status), code |-> problem.code],
                      extraHeaders, TRUE).res

(***************************************************************************)
(* src/fingerprint.ts                                                      *)
(***************************************************************************)
\* a fingerprint that leaves the body out
fingerprintNoBody(method, path, body) ==
    method \o COLON \o path \o COLON

\* SHA-256 of "method:path:body"; the digest is taken to be injective on
\* the string it hashes, so the fingerprint is that string
generateFingerprint(method, path, body) ==
    method \o COLON \o path \o COLON \o body

(***************************************************************************)
(* src/stores/memory.ts                                                    *)
(***************************************************************************)
NoRecord ==
    [key |-> <<>>, fingerprint |-> <<>>, status |-> "none",
     response |-> NoResponse, createdAt |-> 0]

\* the Map: entries <<key, object>> in insertion order
MapHas(m, k) == \E i \in 1..Len(m) : m[i].key = k

MapGet(m, k) ==
    IF MapHas(m, k) THEN m[CHOOSE i \in 1..Len(m) : m[i].key = k].obj ELSE 0

MapDelete(m, k) == SelectSeq(m, LAMBDA e : e.key # k)

MapSet(m, k, o) ==
    IF MapHas(m, k)
    THEN [i \in 1..Len(m) |-> IF m[i].key = k THEN [key |-> k, obj |-> o] ELSE m[i]]
    ELSE Append(m, [key |-> k, obj |-> o])

MapObjs(m) == { m[i].obj : i \in 1..Len(m) }

\* records expire one millisecond before their TTL
isExpiredEarly(record, t) == t - record.createdAt >= ttl - 1

isExpiredLate(record, t) == t - record.createdAt > ttl

isExpired(record, t) == t - record.createdAt >= ttl

sweep(m, h, t) == SelectSeq(m, LAMBDA e : ~isExpired(h[e.obj], t))

\* get(key): [map, rec]; rec = 0 stands for undefined
storeGet(m, h, k, t) ==
    LET o == MapGet(m, k) IN
    IF o = 0 THEN [map |-> m, rec |-> 0]
    ELSE IF isExpired(h[o], t) THEN [map |-> MapDelete(m, k), rec |-> 0]
    ELSE [map |-> m, rec |-> o]

\* an eviction loop that deletes the first entry whatever its status
RECURSIVE evictAny(_, _)
evictAny(m, h) ==
    IF Len(m) > maxSize THEN evictAny(Tail(m), h) ELSE m

\* an eviction loop that, once over maxSize, deletes every entry that is
\* not processing
evictAllCompleted(m, h) ==
    IF Len(m) > maxSize
    THEN SelectSeq(m, LAMBDA e : h[e.obj].status = "processing")
    ELSE m

\* the eviction loop of lock: while the map is over maxSize, delete the
\* first entry in insertion order that is not processing; stop if none
RECURSIVE evict(_, _)
evict(m, h) ==
    IF Len(m) > maxSize /\ \E i \in 1..Len(m) : h[m[i].obj].status # "processing"
    THEN LET i == CHOOSE j \in 1..Len(m) :
                    /\ h[m[j].obj].status # "processing"
                    /\ \A l \in 1..(j - 1) : h[m[l].obj].status = "processing"
         IN evict(MapDelete(m, m[i].key), h)
    ELSE m

storeLockAlways(m, h, k, o, record, t) ==
    LET h2 == [h EXCEPT ![o] = record] IN
    [map |-> evict(MapSet(sweep(m, h, t), k, o), h2), heap |-> h2, ok |-> TRUE]

\* lock(key, record): the object o becomes the stored record
storeLock(m, h, k, o, record, t) ==
    LET swept == sweep(m, h, t)
        ex == MapGet(swept, k)
    IN  IF ex # 0 /\ ~isExpired(h[ex], t)
        THEN [map |-> swept, heap |-> h, ok |-> FALSE]
        ELSE LET h2 == [h EXCEPT ![o] = record] IN
             [map |-> evict(MapSet(swept, k, o), h2), heap |-> h2, ok |-> TRUE]

\* a purge that removes the completed records instead of the expired ones
storePurgeCompleted(m, h, t) ==
    [map |-> SelectSeq(m, LAMBDA e : h[e.obj].status # "completed"),
     count |-> Cardinality({ i \in 1..Len(m) : h[m[i].obj].status = "completed" })]

\* purge(): deletes the expired entries and returns their number
storePurge(m, h, t) ==
    [map |-> SelectSeq(m, LAMBDA e : ~isExpired(h[e.obj], t)),
     count |-> Cardinality({ i \in 1..Len(m) : isExpired(h[m[i].obj], t) })]

\* a complete that marks the record completed and forgets the response
storeCompleteStatusOnly(m, h, k, response) ==
    LET o == MapGet(m, k) IN
    IF o # 0
    THEN [h EXCEPT ![o] = [@ EXCEPT !.status = "completed"]]
    ELSE h

\* a complete that also renews the creation time of the record
storeCompleteRestamped(m, h, k, response) ==
    LET o == MapGet(m, k) IN
    IF o # 0
    THEN [h EXCEPT ![o] = [@ EXCEPT !.status = "completed", !.response = response,
                                    !.createdAt = @ + 1]]
    ELSE h

\* complete(key, response): mutates the stored object in place
storeComplete(m, h, k, response) ==
    LET o == MapGet(m, k) IN
    IF o # 0
    THEN [h EXCEPT ![o] = [@ EXCEPT !.status = "completed", !.response = response]]
    ELSE h

storeDeleteNoop(m, k) == m

storeDelete(m, k) == MapDelete(m, k)

(***************************************************************************)
(* src/middleware.ts                                                       *)
(***************************************************************************)
EXCLUDED_STORE_HEADERS == {"set-cookie"}

\* storeKey without encoding the caller-controlled segments
storeKeyRaw(rawPrefix, method, path, key) ==
    LET baseKey == method \o COLON \o path \o COLON \o key IN
    IF rawPrefix # <<>> THEN rawPrefix \o COLON \o baseKey ELSE baseKey

\* the empty prefix is falsy: no prefix segment
buildStoreKey(rawPrefix, method, path, key) ==
    LET encodedKey == encodeURIComponent(key)
        baseKey == method \o COLON \o path \o COLON \o encodedKey
    IN  IF rawPrefix # <<>>
        THEN encodeURIComponent(rawPrefix) \o COLON \o baseKey
        ELSE baseKey

StoreKeyOf(in) == buildStoreKey(in.prefix, in.method, in.path, in.key)

FpOf(in) == generateFingerprint(in.method, in.path, in.body)

resOkLoose(status) == status >= 200 /\ status <= 500

resOkUpTo300(status) == status >= 200 /\ status <= 300

\* Response.ok
resOk(status) == status >= 200 /\ status <= 299

storedHeadersAll(headers) == headers

\* the headers kept in the stored response
storedHeaders(headers) ==
    { p \in headers : Lower(p[1]) \notin EXCLUDED_STORE_HEADERS }

storedResponse(res) ==
    [status |-> res.status, headers |-> storedHeaders(res.headers), body |-> res.body]

\* the response rebuilt for the first caller after the body was consumed
rebuiltResponse(res) ==
    [status |-> res.status, headers |-> res.headers, body |-> res.body]

replayResponseUnmarked(stored) ==
    [status |-> stored.status, headers |-> Headers(stored.headers), body |-> stored.body]

replayResponse(stored) ==
    [status |-> stored.status,
     headers |-> HeadersSet(Headers(stored.headers), "Idempotency-Replayed", "true"),
     body |-> stored.body]

inspectNoReplay(record, reqFp) ==
    IF record.status = "processing" THEN "conflict"
    ELSE IF record.fingerprint # reqFp THEN "mismatch"
    ELSE "lock"

inspectNoFingerprint(record, reqFp) ==
    IF record.status = "processing" THEN "conflict"
    ELSE IF record.response # NoResponse THEN "replay"
    ELSE "lock"

inspectNoProcessing(record, reqFp) ==
    IF record.fingerprint # reqFp THEN "mismatch"
    ELSE IF record.response # NoResponse THEN "replay"
    ELSE "lock"

\* the branch taken on an existing record
inspect(record, reqFp) ==
    IF record.status = "processing" THEN "conflict"
    ELSE IF record.fingerprint # reqFp THEN "mismatch"
    ELSE IF record.response # NoResponse THEN "replay"
    ELSE "lock"

Conflict409 == problemResponse(conflict, {<<"Retry-After", "1">>})

GET == <<"G", "E", "T">>

DEFAULT_METHODS == {POST, PATCH}

DEFAULT_MAX_KEY_LENGTH == 256

\* the options of idempotency() when only the store is given (maxBodySize
\* is an option of IdempotencyOptions).  skipRequest
\* is the set of paths for which the predicate returns true (none when it is
\* not given); an optional number is <<>> or <<n>>; a hook is "undefined" or
\* what it does when called
DefaultOptions ==
    [required |-> FALSE, methods |-> DEFAULT_METHODS,
     maxKeyLength |-> DEFAULT_MAX_KEY_LENGTH, skipRequest |-> {},
     maxBodySize |-> <<>>, onCacheHit |-> "undefined", onCacheMiss |-> "undefined"]

\* a request that is handed to the handler without idempotency handling,
\* whatever skipRequest says
bypassedNoSkip(opts, in) ==
    \/ in.method \notin opts.methods
    \/ in.key = <<>> /\ ~opts.required

\* the request is handed to next() without idempotency handling: its method
\* is not covered, skipRequest returns true, or it has no key and none is
\* required (an empty header value is no key: !key)
bypassed(opts, in) ==
    \/ in.method \notin opts.methods
    \/ in.path \in opts.skipRequest
    \/ in.key = <<>> /\ ~opts.required

\* a length check that also refuses a key of exactly maxKeyLength
keyTooLongFromLimit(key, maxKeyLength) == Len(key) >= maxKeyLength

\* key.length > maxKeyLength
keyTooLongFor(key, maxKeyLength) == Len(key) > maxKeyLength

\* a precheck that hands a request with too long a key on to the handler
precheckLenient(opts, in) ==
    IF bypassed(opts, in) THEN "next"
    ELSE IF in.key = <<>> THEN "missingKey"
    ELSE IF keyTooLongFor(in.key, opts.maxKeyLength) THEN "next"
    ELSE "get"

\* what the middleware does with a request before it reads the body and
\* touches the store (the maxBodySize option is not read)
precheck(opts, in) ==
    IF bypassed(opts, in) THEN "next"
    ELSE IF in.key = <<>> THEN "missingKey"
    ELSE IF keyTooLongFor(in.key, opts.maxKeyLength) THEN "keyTooLong"
    ELSE "get"

\* a safeHook that lets the hook's exception through
safeHookRethrows(fn) ==
    IF fn \in {"throws", "rejects"} THEN "threw" ELSE "returned"

\* safeHook: the hook is awaited inside try/catch, so the call returns
\* whether the hook is missing, returns, throws or rejects
safeHook(fn) ==
    IF fn = "undefined" THEN "returned"
    ELSE IF fn \in {"throws", "rejects"} THEN "returned"
    ELSE "returned"

\* a safeHook that calls the hook a second time
hookedTwice(h, name, fn) == IF fn = "undefined" THEN h ELSE Append(Append(h, name), name)

\* the hooks a request has called, after safeHook(fn) for the named hook
hooked(h, name, fn) == IF fn = "undefined" THEN h ELSE Append(h, name)

(***************************************************************************)
(* Direct calls of a store: each call is a task that is suspended at every *)
(* await of the store's code                                               *)
(***************************************************************************)
\* number of tasks that call a store directly
NCall == 2

Call == 1..NCall

\* the key the direct calls work on
StoreKey == <<"key-1">>

Undefined == [status |-> "undefined"]

\* the keys the calls of the durable object store work on, in the order in
\* which storage.list() returns them
DoKeyOrder == <<StoreKey, <<"key-2">>>>

DoKeys == { DoKeyOrder[i] : i \in 1..Len(DoKeyOrder) }

\* a call: the method and key, where it is suspended, its locals, the
\* operations it has issued to the client or namespace behind the store, the
\* time it was made (while it is in flight), whether time has passed since
\* then, and its result
IdleTask ==
    [op |-> "none", key |-> <<>>, pc |-> "idle", tmp |-> Undefined, ops |-> <<>>,
     since |-> 0, late |-> FALSE, ret |-> "none"]

\* a task whose call has returned ret at time t
Returned(t, ret, at) ==
    [t EXCEPT !.pc = "done", !.tmp = Undefined, !.ret = ret, !.since = 0,
              !.late = (t.pc # "idle" /\ at # t.since)]

\* a task whose call has raised error (the promise it returned is rejected)
Raised(t, error) ==
    [t EXCEPT !.pc = "raised", !.tmp = Undefined, !.ret = error, !.since = 0]

\* the record a direct caller hands to lock (makeRecord of the store tests)
makeRecord(key, t) ==
    [key |-> key, fingerprint |-> <<"fp">>, status |-> "processing",
     response |-> NoResponse, createdAt |-> t]

\* the response a direct caller hands to complete (makeResponse)
makeResponse ==
    [status |-> 200, headers |-> {<<"content-type", "application/json">>},
     body |-> <<"ok", 0>>]

\* nothing in the table: ensureTable has not run
NoD1 == [initialized |-> FALSE, rows |-> {}]

\* the middleware is not running over these stores
BackendsUnused ==
    /\ task = [c \in Call |-> IdleTask]
    /\ d1 = NoD1
    /\ client = Undefined
    /\ kv = Undefined
    /\ storage = [k \in DoKeys |-> Undefined]

(***************************************************************************)
(* State machine                                                           *)
(***************************************************************************)
Init ==
    /\ now = 0
    /\ map = <<>>
    /\ heap = [o \in Obj |-> NoRecord]
    /\ pc = [r \in Req |-> "idle"]
    /\ input = [r \in Req |-> NoInput]
    /\ fp = [r \in Req |-> <<>>]
    /\ storeKey = [r \in Req |-> <<>>]
    /\ existing = [r \in Req |-> 0]
    /\ ran = [r \in Req |-> FALSE]
    /\ outcome = [r \in Req |-> "none"]
    /\ resp = [r \in Req |-> NoResponse]
    /\ calls = [r \in Req |-> <<>>]
    /\ hooks = [r \in Req |-> <<>>]
    /\ options = DefaultOptions
    /\ store = "memory"
    /\ ttl = Ttl
    /\ maxSize = MaxSize
    /\ BackendsUnused

\* Date.now() advances
Tick ==
    /\ now < MaxTime
    /\ now' = now + 1
    /\ UNCHANGED <<map, heap, requestVars, storeVars>>

Answer(r, kind, response) ==
    /\ pc' = [pc EXCEPT ![r] = "done"]
    /\ outcome' = [outcome EXCEPT ![r] = kind]
    /\ resp' = [resp EXCEPT ![r] = response]

\* a request arrives.  It is handed to the handler as it is, or refused, or
\* its fingerprint and store key are computed and store.get is called
Receive(r, in) ==
    /\ pc[r] = "idle"
    /\ \A q \in Req : q < r => pc[q] # "idle"
    /\ input' = [input EXCEPT ![r] = in]
    /\ LET route == precheck(options, in) IN
       CASE route = "next" ->
              /\ pc' = [pc EXCEPT ![r] = "passing"]
              /\ ran' = [ran EXCEPT ![r] = TRUE]
              /\ UNCHANGED <<map, existing, storeKey, fp, outcome, resp, calls>>
         [] route = "missingKey" ->
              /\ Answer(r, "rejected", problemResponse(missingKey, {}))
              /\ UNCHANGED <<map, existing, storeKey, fp, ran, calls>>
         [] route = "keyTooLong" ->
              /\ Answer(r, "rejected", problemResponse(keyTooLong, {}))
              /\ UNCHANGED <<map, existing, storeKey, fp, ran, calls>>
         [] OTHER ->
              /\ LET sk == StoreKeyOf(in)
                     g == storeGet(map, heap, sk, now)
                 IN  /\ map' = g.map
                     /\ existing' = [existing EXCEPT ![r] = g.rec]
                     /\ storeKey' = [storeKey EXCEPT ![r] = sk]
              /\ fp' = [fp EXCEPT ![r] = FpOf(in)]
              /\ pc' = [pc EXCEPT ![r] = "inspect"]
              /\ calls' = [calls EXCEPT ![r] = Append(@, "get")]
              /\ UNCHANGED <<ran, outcome, resp>>
    /\ UNCHANGED <<now, heap, hooks, options>>
    /\ UNCHANGED storeVars

\* the handler of a request that was handed on as it is has finished: its
\* response, or its exception, is the request's
Pass(r, result) ==
    /\ pc[r] = "passing"
    /\ Answer(r, "bypassed", result.res)
    /\ UNCHANGED <<now, map, heap, input, fp, storeKey, existing, ran, calls, hooks, options>>
    /\ UNCHANGED storeVars

\* store.get has returned: the existing record is inspected and, unless it
\* answers the request, store.lock is called and the handler is started
Inspect(r) ==
    /\ pc[r] = "inspect"
    /\ LET sk == storeKey[r]
           branch == IF existing[r] # 0 THEN inspect(heap[existing[r]], fp[r]) ELSE "lock"
       IN  CASE branch = "conflict" ->
                  /\ Answer(r, "conflict", Conflict409)
                  /\ UNCHANGED <<map, heap, ran, calls, hooks>>
             [] branch = "mismatch" ->
                  /\ Answer(r, "mismatch", problemResponse(fingerprintMismatch, {}))
                  /\ UNCHANGED <<map, heap, ran, calls, hooks>>
             [] branch = "replay" ->
                  /\ hooks' = [hooks EXCEPT ![r] = hooked(@, "onCacheHit", options.onCacheHit)]
                  /\ IF safeHook(options.onCacheHit) = "threw"
                     THEN Answer(r, "thrown", NoResponse)
                     ELSE Answer(r, "replay", replayResponse(heap[existing[r]].response))
                  /\ UNCHANGED <<map, heap, ran, calls>>
             [] OTHER ->
                  LET record == [key |-> input[r].key, fingerprint |-> fp[r],
                                 status |-> "processing", response |-> NoResponse,
                                 createdAt |-> now]
                      l == storeLock(map, heap, sk, r, record, now)
                  IN  /\ map' = l.map
                      /\ heap' = l.heap
                      /\ calls' = [calls EXCEPT ![r] = Append(@, "lock")]
                      /\ IF ~l.ok
                         THEN /\ Answer(r, "conflict", Conflict409)
                              /\ UNCHANGED <<ran, hooks>>
                         ELSE /\ hooks' = [hooks EXCEPT ![r] =
                                              hooked(@, "onCacheMiss", options.onCacheMiss)]
                              /\ IF safeHook(options.onCacheMiss) = "threw"
                                 THEN /\ Answer(r, "thrown", NoResponse)
                                      /\ UNCHANGED ran
                                 ELSE /\ pc' = [pc EXCEPT ![r] = "executing"]
                                      /\ ran' = [ran EXCEPT ![r] = TRUE]
                                      /\ UNCHANGED <<outcome, resp>>
    /\ UNCHANGED <<now, input, fp, storeKey, existing, options>>
    /\ UNCHANGED storeVars

\* the handler has finished: the record is deleted or completed
Finish(r, result) ==
    /\ pc[r] = "executing"
    /\ LET sk == storeKey[r] IN
       IF result.threw
       THEN /\ map' = storeDelete(map, sk)
            /\ calls' = [calls EXCEPT ![r] = Append(@, "delete")]
            /\ Answer(r, "thrown", NoResponse)
            /\ UNCHANGED heap
       ELSE IF ~resOk(result.res.status)
       THEN /\ map' = storeDelete(map, sk)
            /\ calls' = [calls EXCEPT ![r] = Append(@, "delete")]
            /\ Answer(r, "failed", result.res)
            /\ UNCHANGED heap
       ELSE /\ heap' = storeComplete(map, heap, sk, storedResponse(result.res))
            /\ calls' = [calls EXCEPT ![r] = Append(@, "complete")]
            /\ Answer(r, "completed", rebuiltResponse(result.res))
            /\ UNCHANGED map
    /\ UNCHANGED <<now, input, fp, storeKey, existing, ran, hooks, options>>
    /\ UNCHANGED storeVars

Next ==
    \/ Tick
    \/ \E r \in Req, in \in Inputs : Receive(r, in)
    \/ \E r \in Req : Inspect(r)
    \/ \E r \in Req : \E result \in HandlerResults(r) : Finish(r, result)

Spec == Init /\ [][Next]_vars

\* the handler of a request that runs it returns or throws in the end, and
\* the store call that follows returns
HandlersEnd ==
    \A r \in Req : WF_vars(\E result \in HandlerResults(r) : Finish(r, result))


(***************************************************************************)
(* The store already holds a completed record without a response, put      *)
(* there by a direct store.lock call (the corrupt record of the tests).    *)
(***************************************************************************)
CorruptInput ==
    [prefix |-> PrefixA, method |-> POST, path |-> PathD, key |-> KeyCrafted, body |-> Body1]

InitCorrupt ==
    /\ now = 0
    /\ store = "memory"
    /\ ttl = Ttl
    /\ maxSize = MaxSize
    /\ BackendsUnused
    /\ LET record == [key |-> CorruptInput.key, fingerprint |-> FpOf(CorruptInput),
                      status |-> "completed", response |-> NoResponse, createdAt |-> 0]
           l == storeLock(<<>>, [o \in Obj |-> NoRecord], StoreKeyOf(CorruptInput),
                          DirectObj, record, 0)
       IN  /\ map = l.map
           /\ heap = l.heap
    /\ pc = [r \in Req |-> "idle"]
    /\ input = [r \in Req |-> NoInput]
    /\ fp = [r \in Req |-> <<>>]
    /\ storeKey = [r \in Req |-> <<>>]
    /\ existing = [r \in Req |-> 0]
    /\ ran = [r \in Req |-> FALSE]
    /\ outcome = [r \in Req |-> "none"]
    /\ resp = [r \in Req |-> NoResponse]
    /\ calls = [r \in Req |-> <<>>]
    /\ hooks = [r \in Req |-> <<>>]
    /\ options = DefaultOptions

SpecCorrupt == InitCorrupt /\ [][Next]_vars

(***************************************************************************)
(* The same idempotency key sent again with one of method, path and body   *)
(* changed.                                                                *)
(***************************************************************************)
VariantInputs ==
    { [prefix |-> PrefixA, method |-> POST, path |-> PathD, key |-> KeyCrafted, body |-> Body1],
      [prefix |-> PrefixA, method |-> PATCH, path |-> PathD, key |-> KeyCrafted, body |-> Body1],
      [prefix |-> PrefixA, method |-> POST, path |-> PathE, key |-> KeyCrafted, body |-> Body1],
      [prefix |-> PrefixA, method |-> POST, path |-> PathD, key |-> KeyCrafted, body |-> Body2] }

NextVariants ==
    \/ Tick
    \/ \E r \in Req, in \in VariantInputs : Receive(r, in)
    \/ \E r \in Req : Inspect(r)
    \/ \E r \in Req : \E result \in HandlerResults(r) : Finish(r, result)

SpecVariants == Init /\ [][NextVariants]_vars

(***************************************************************************)
(* Handlers that answer with the statuses around the bounds of Response.ok *)
(***************************************************************************)
StatusInputs ==
    { [prefix |-> NoPrefix, method |-> POST, path |-> PathD, key |-> KeyY, body |-> Body1],
      [prefix |-> NoPrefix, method |-> POST, path |-> PathE, key |-> KeyY, body |-> Body1] }

BoundaryStatuses == {200, 299, 300, 400}

StatusResults(r) ==
    { [threw |-> FALSE,
       res |-> Response(<<"edge", r>>, st, {<<"Content-Type", "text/plain">>})] :
      st \in BoundaryStatuses }

NextStatus ==
    \/ Tick
    \/ \E r \in Req, in \in StatusInputs : Receive(r, in)
    \/ \E r \in Req : Inspect(r)
    \/ \E r \in Req : \E result \in StatusResults(r) : Finish(r, result)

SpecStatus == Init /\ [][NextStatus]_vars

(***************************************************************************)
(* Requests that the middleware hands on or refuses before it touches the  *)
(* store: a method that is not covered, a path skipRequest opts out, no    *)
(* key, a key of exactly maxKeyLength characters and one that is longer.   *)
(***************************************************************************)
KeyAtLimit == <<"k", "k">>

KeyOverLimit == <<"k", "k", "k">>

\* the maxKeyLength option of these middlewares
FrontMaxKeyLength == Len(KeyAtLimit)

FrontInputs ==
    { [prefix |-> NoPrefix, method |-> GET, path |-> PathD, key |-> KeyAtLimit, body |-> Body1],
      [prefix |-> NoPrefix, method |-> POST, path |-> PathE, key |-> KeyAtLimit, body |-> Body1],
      [prefix |-> NoPrefix, method |-> POST, path |-> PathD, key |-> <<>>, body |-> Body1],
      [prefix |-> NoPrefix, method |-> POST, path |-> PathD, key |-> KeyAtLimit, body |-> Body1],
      [prefix |-> NoPrefix, method |-> POST, path |-> PathD, key |-> KeyOverLimit, body |-> Body1] }

\* required is set or not; skipRequest is (c) => c.req.path === "/e"; the
\* hooks are given and return
FrontOptions ==
    { [DefaultOptions EXCEPT !.required = req, !.maxKeyLength = FrontMaxKeyLength,
                             !.skipRequest = {PathE},
                             !.onCacheHit = "returns", !.onCacheMiss = "returns"] :
      req \in BOOLEAN }

\* the middleware created with one of the options in opts, no request sent
InitWith(opts) ==
    /\ now = 0
    /\ map = <<>>
    /\ heap = [o \in Obj |-> NoRecord]
    /\ pc = [r \in Req |-> "idle"]
    /\ input = [r \in Req |-> NoInput]
    /\ fp = [r \in Req |-> <<>>]
    /\ storeKey = [r \in Req |-> <<>>]
    /\ existing = [r \in Req |-> 0]
    /\ ran = [r \in Req |-> FALSE]
    /\ outcome = [r \in Req |-> "none"]
    /\ resp = [r \in Req |-> NoResponse]
    /\ calls = [r \in Req |-> <<>>]
    /\ hooks = [r \in Req |-> <<>>]
    /\ options \in opts
    /\ store = "memory"
    /\ ttl = Ttl
    /\ maxSize = MaxSize
    /\ BackendsUnused

InitFront == InitWith(FrontOptions)

NextFront ==
    \/ Tick
    \/ \E r \in Req, in \in FrontInputs : Receive(r, in)
    \/ \E r \in Req : \E result \in HandlerResults(r) : Pass(r, result)
    \/ \E r \in Req : Inspect(r)
    \/ \E r \in Req : \E result \in HandlerResults(r) : Finish(r, result)

SpecFront == InitFront /\ [][NextFront]_vars

(***************************************************************************)
(* Requests sent to a middleware created with maxBodySize: bodies within,  *)
(* at and over the limit, with a Content-Length header that is absent,     *)
(* accurate or smaller than the body.                                      *)
(***************************************************************************)
BodyAtLimit == <<"x", "x">>

BodyOverLimit == <<"x", "x", "x">>

\* the maxBodySize option of these middlewares, in bytes
BodyMaxSize == Len(BodyAtLimit)

\* a request with the given body and Content-Length header (<<>>: none)
BodyInput(body, contentLength) ==
    [prefix |-> NoPrefix, method |-> POST, path |-> PathD, key |-> KeyY,
     body |-> body, contentLength |-> contentLength]

BodyInputs ==
    { BodyInput(BodyOverLimit, <<>>),
      BodyInput(BodyOverLimit, <<Len(BodyOverLimit)>>),
      BodyInput(BodyOverLimit, <<Len(Body1)>>),
      BodyInput(BodyAtLimit, <<Len(BodyAtLimit)>>),
      BodyInput(Body1, <<>>) }

BodyOptions == { [DefaultOptions EXCEPT !.maxBodySize = <<BodyMaxSize>>] }

InitBody == InitWith(BodyOptions)

NextBody ==
    \/ Tick
    \/ \E r \in Req, in \in BodyInputs : Receive(r, in)
    \/ \E r \in Req : Inspect(r)
    \/ \E r \in Req : \E result \in HandlerResults(r) : Finish(r, result)

SpecBody == InitBody /\ [][NextBody]_vars

(***************************************************************************)
(* Middlewares created with onCacheHit and onCacheMiss hooks that return,  *)
(* throw or return a rejected promise, or without them.                    *)
(***************************************************************************)
HookKinds == {"undefined", "returns", "throws", "rejects"}

\* both hooks of one kind, or only one of them given
HookOptions ==
    { [DefaultOptions EXCEPT !.onCacheHit = p[1], !.onCacheMiss = p[2]] :
      p \in { q \in HookKinds \X HookKinds :
                 q[1] = q[2] \/ q[1] = "undefined" \/ q[2] = "undefined" } }

\* the same request, and the same key with another body
HookInputs ==
    { [prefix |-> NoPrefix, method |-> POST, path |-> PathD, key |-> KeyY, body |-> Body1],
      [prefix |-> NoPrefix, method |-> POST, path |-> PathD, key |-> KeyY, body |-> Body2] }

InitHooks == InitWith(HookOptions)

NextHooks ==
    \/ Tick
    \/ \E r \in Req, in \in HookInputs : Receive(r, in)
    \/ \E r \in Req : Inspect(r)
    \/ \E r \in Req : \E result \in HandlerResults(r) : Finish(r, result)

SpecHooks == InitHooks /\ [][NextHooks]_vars

\* the middleware with the default options on the same key with two
\* bodies, every handler returning or throwing in the end
NextLive ==
    \/ Tick
    \/ \E r \in Req, in \in HookInputs : Receive(r, in)
    \/ \E r \in Req : Inspect(r)
    \/ \E r \in Req : \E result \in HandlerResults(r) : Finish(r, result)

SpecLive == Init /\ [][NextLive]_vars /\ HandlersEnd

(***************************************************************************)
(* The middleware with both hooks given, on requests of every kind: not    *)
(* covered, skipped, without key, with too long a key, and the same key    *)
(* with two bodies.                                                        *)
(***************************************************************************)
HookCallInputs ==
    FrontInputs \cup
    { [prefix |-> NoPrefix, method |-> POST, path |-> PathD, key |-> KeyAtLimit, body |-> Body2] }

InitHookCalls == InitWith(FrontOptions)

NextHookCalls ==
    \/ Tick
    \/ \E r \in Req, in \in HookCallInputs : Receive(r, in)
    \/ \E r \in Req : \E result \in HandlerResults(r) : Pass(r, result)
    \/ \E r \in Req : Inspect(r)
    \/ \E r \in Req : \E result \in HandlerResults(r) : Finish(r, result)

SpecHookCalls == InitHookCalls /\ [][NextHookCalls]_vars

(***************************************************************************)
(* Direct calls of the in-memory store.  The store's methods do not await: *)
(* a call is one step; task[1] is the call made last.                      *)
(***************************************************************************)
\* the options the stores under direct test are built with
MemTtls == {1, 2}
MemMaxSizes == {1, 2}

\* the store tests work with the keys key-1, key-2 and key-3; the record
\* locked under key-o is object o
NMemKey == 3

MemObj == 1..NMemKey

MemKey(o) == <<"key", o>>

Caller(op, key, ret) ==
    task' = [task EXCEPT ![1] = [Returned(IdleTask, ret, 0) EXCEPT !.op = op, !.key = key]]

MemLock(o) ==
    /\ store = "memory"
    /\ LET l == storeLock(map, heap, MemKey(o), o, makeRecord(MemKey(o), now), now) IN
       /\ map' = l.map
       /\ heap' = l.heap
       /\ Caller("lock", MemKey(o), l.ok)
    /\ UNCHANGED <<now, requestVars, store, ttl, maxSize, d1, client, kv, storage>>

MemGet(o) ==
    /\ store = "memory"
    /\ LET g == storeGet(map, heap, MemKey(o), now) IN
       /\ map' = g.map
       /\ Caller("get", MemKey(o), g.rec)
    /\ UNCHANGED <<now, heap, requestVars, store, ttl, maxSize, d1, client, kv, storage>>

MemComplete(o) ==
    /\ store = "memory"
    /\ heap' = storeComplete(map, heap, MemKey(o), makeResponse)
    /\ Caller("complete", MemKey(o), "void")
    /\ UNCHANGED <<now, map, requestVars, store, ttl, maxSize, d1, client, kv, storage>>

MemDelete(o) ==
    /\ store = "memory"
    /\ map' = storeDelete(map, MemKey(o))
    /\ Caller("delete", MemKey(o), "void")
    /\ UNCHANGED <<now, heap, requestVars, store, ttl, maxSize, d1, client, kv, storage>>

MemPurge ==
    /\ store = "memory"
    /\ LET g == storePurge(map, heap, now) IN
       /\ map' = g.map
       /\ Caller("purge", <<>>, g.count)
    /\ UNCHANGED <<now, heap, requestVars, store, ttl, maxSize, d1, client, kv, storage>>

\* Date.now() advances while a store is called directly
TickStore ==
    /\ now < MaxTime
    /\ now' = now + 1
    /\ UNCHANGED <<map, heap, requestVars, storeVars>>

RequestsIdle ==
    /\ pc = [r \in Req |-> "idle"]
    /\ input = [r \in Req |-> NoInput]
    /\ fp = [r \in Req |-> <<>>]
    /\ storeKey = [r \in Req |-> <<>>]
    /\ existing = [r \in Req |-> 0]
    /\ ran = [r \in Req |-> FALSE]
    /\ outcome = [r \in Req |-> "none"]
    /\ resp = [r \in Req |-> NoResponse]
    /\ calls = [r \in Req |-> <<>>]
    /\ hooks = [r \in Req |-> <<>>]
    /\ options = DefaultOptions

InitMemory ==
    /\ now = 0
    /\ map = <<>>
    /\ heap = [o \in Obj |-> NoRecord]
    /\ RequestsIdle
    /\ store = "memory"
    /\ ttl \in MemTtls
    /\ maxSize \in MemMaxSizes
    /\ BackendsUnused

NextMemory ==
    \/ TickStore
    \/ \E o \in MemObj : MemLock(o)
    \/ \E o \in MemObj : MemGet(o)
    \/ \E o \in MemObj : MemComplete(o)
    \/ \E o \in MemObj : MemDelete(o)
    \/ MemPurge

SpecMemory == InitMemory /\ [][NextMemory]_vars

(***************************************************************************)
(* src/stores/cloudflare-kv.ts, durableObjectStore, called directly.  The  *)
(* storage holds one value per key.  A step is a storage operation taking  *)
(* effect together with the code that runs when its await resumes, up to   *)
(* the next storage operation being issued.  The store runs inside one     *)
(* Durable Object (storage is its ctx.storage), which delivers no other    *)
(* event while a storage operation is awaited: a call starts when no other *)
(* call is in flight.  Time still passes between the steps of a call.      *)
(***************************************************************************)
\* a task starts its call once the tasks before it have started theirs
CanStart(c) ==
    /\ task[c].pc = "idle"
    /\ \A b \in Call : b < c => task[b].pc # "idle"

Started_(t, op) == [t EXCEPT !.op = op, !.key = StoreKey, !.since = now]

doIsExpired(record, t) == t - record.createdAt >= ttl

\* get(key) on the stored value st
doGet(st, t) ==
    IF st = Undefined THEN Undefined
    ELSE IF doIsExpired(st, t) THEN Undefined
    ELSE st

\* lock(key, record): the check made on the value read
doLockRefuses(st, t) == st # Undefined /\ ~doIsExpired(st, t)

\* a call on key k has started
StartedOn(t, op, k) == [t EXCEPT !.op = op, !.key = k, !.since = now]

\* the input gate of the Durable Object: call c starts when it is its turn
\* and no other call is waiting for a storage operation
DoCanStart(c) ==
    /\ CanStart(c)
    /\ \A b \in Call : task[b].pc \in {"idle", "done"}

DoGet(c, k) ==
    /\ store = "durable-object"
    /\ DoCanStart(c)
    /\ task' = [task EXCEPT ![c] = Returned(StartedOn(@, "get", k), doGet(storage[k], now), now)]
    /\ UNCHANGED <<now, map, heap, requestVars, store, ttl, maxSize, d1, client, kv, storage>>

\* storage.get of lock: false is returned, or storage.put is issued
DoLockRead(c, k) ==
    /\ store = "durable-object"
    /\ DoCanStart(c)
    /\ task' = [task EXCEPT ![c] =
                    IF doLockRefuses(storage[k], now)
                    THEN Returned(StartedOn(@, "lock", k), FALSE, now)
                    ELSE [StartedOn(@, "lock", k) EXCEPT
                            !.pc = "put", !.tmp = makeRecord(k, now)]]
    /\ UNCHANGED <<now, map, heap, requestVars, store, ttl, maxSize, d1, client, kv, storage>>

\* storage.put of lock takes effect and lock returns true
DoLockPut(c) ==
    /\ store = "durable-object"
    /\ task[c].op = "lock" /\ task[c].pc = "put"
    /\ storage' = [storage EXCEPT ![task[c].key] = task[c].tmp]
    /\ task' = [task EXCEPT ![c] = Returned(@, TRUE, now)]
    /\ UNCHANGED <<now, map, heap, requestVars, store, ttl, maxSize, d1, client, kv>>

\* storage.get of complete: nothing to do, or storage.put is issued
DoCompleteRead(c, k) ==
    /\ store = "durable-object"
    /\ DoCanStart(c)
    /\ task' = [task EXCEPT ![c] =
                    IF storage[k] = Undefined
                    THEN Returned(StartedOn(@, "complete", k), "void", now)
                    ELSE [StartedOn(@, "complete", k) EXCEPT
                            !.pc = "put",
                            !.tmp = [storage[k] EXCEPT !.status = "completed",
                                                       !.response = makeResponse]]]
    /\ UNCHANGED <<now, map, heap, requestVars, store, ttl, maxSize, d1, client, kv, storage>>

DoCompletePut(c) ==
    /\ store = "durable-object"
    /\ task[c].op = "complete" /\ task[c].pc = "put"
    /\ storage' = [storage EXCEPT ![task[c].key] = task[c].tmp]
    /\ task' = [task EXCEPT ![c] = Returned(@, "void", now)]
    /\ UNCHANGED <<now, map, heap, requestVars, store, ttl, maxSize, d1, client, kv>>

DoDelete(c, k) ==
    /\ store = "durable-object"
    /\ DoCanStart(c)
    /\ storage' = [storage EXCEPT ![k] = Undefined]
    /\ task' = [task EXCEPT ![c] = Returned(StartedOn(@, "delete", k), "void", now)]
    /\ UNCHANGED <<now, map, heap, requestVars, store, ttl, maxSize, d1, client, kv>>

\* purge(): the position, from position from on, of the next listed entry
\* that isExpired finds expired at time t; 0 when the loop ends without one
RECURSIVE nextExpired(_, _, _)
nextExpired(entries, from, t) ==
    IF from > Len(DoKeyOrder) THEN 0
    ELSE IF entries[DoKeyOrder[from]] # Undefined /\ doIsExpired(entries[DoKeyOrder[from]], t)
    THEN from
    ELSE nextExpired(entries, from + 1, t)

\* purge() after the loop has gone on from position from over the listed
\* entries with count deletions made: storage.delete is issued for the next
\* expired entry, or count is returned
purgeLoop(t, entries, from, count) ==
    LET at == nextExpired(entries, from, now) IN
    IF at = 0
    THEN Returned(t, count, now)
    ELSE [t EXCEPT !.pc = "delete",
                   !.tmp = [entries |-> entries, at |-> at, count |-> count]]

\* storage.list() of purge has answered
DoPurgeList(c) ==
    /\ store = "durable-object"
    /\ DoCanStart(c)
    /\ task' = [task EXCEPT ![c] = purgeLoop(StartedOn(@, "purge", <<>>), storage, 1, 0)]
    /\ UNCHANGED <<now, map, heap, requestVars, store, ttl, maxSize, d1, client, kv, storage>>

\* a storage.delete of purge takes effect, count++ and the loop goes on
DoPurgeDelete(c) ==
    /\ store = "durable-object"
    /\ task[c].op = "purge" /\ task[c].pc = "delete"
    /\ storage' = [storage EXCEPT ![DoKeyOrder[task[c].tmp.at]] = Undefined]
    /\ task' = [task EXCEPT ![c] =
                    purgeLoop(@, @.tmp.entries, @.tmp.at + 1, @.tmp.count + 1)]
    /\ UNCHANGED <<now, map, heap, requestVars, store, ttl, maxSize, d1, client, kv>>

\* the stores whose TTL is in milliseconds and checked by isExpired
InitLocal ==
    /\ now = 0
    /\ map = <<>>
    /\ heap = [o \in Obj |-> NoRecord]
    /\ RequestsIdle
    /\ store \in {"memory", "durable-object"}
    /\ ttl \in MemTtls
    /\ maxSize \in MemMaxSizes
    /\ store = "durable-object" => maxSize = 2
    /\ BackendsUnused

NextLocal ==
    \/ TickStore
    \/ \E o \in MemObj : MemLock(o)
    \/ \E o \in MemObj : MemGet(o)
    \/ \E o \in MemObj : MemComplete(o)
    \/ \E o \in MemObj : MemDelete(o)
    \/ MemPurge
    \/ \E c \in Call, k \in DoKeys : DoGet(c, k)
    \/ \E c \in Call, k \in DoKeys : DoLockRead(c, k)
    \/ \E c \in Call : DoLockPut(c)
    \/ \E c \in Call, k \in DoKeys : DoCompleteRead(c, k)
    \/ \E c \in Call : DoCompletePut(c)
    \/ \E c \in Call, k \in DoKeys : DoDelete(c, k)
    \/ \E c \in Call : DoPurgeList(c)
    \/ \E c \in Call : DoPurgeDelete(c)

SpecLocal == InitLocal /\ [][NextLocal]_vars

(***************************************************************************)
(* purge() of the stores that keep expired records until they are removed: *)
(* records are locked and completed at different times and purge is called *)
(* while some have expired and others have not.  The durable object        *)
(* storage starts with the record of a lock("key-1") made at time 0.       *)
(***************************************************************************)
\* the time up to which these stores are watched
MaxPurgeTime == 2

TickPurge ==
    /\ now < MaxPurgeTime
    /\ now' = now + 1
    /\ UNCHANGED <<map, heap, requestVars, storeVars>>

InitPurge ==
    /\ now = 0
    /\ map = <<>>
    /\ heap = [o \in Obj |-> NoRecord]
    /\ RequestsIdle
    /\ store \in {"memory", "durable-object"}
    /\ ttl \in MemTtls
    /\ maxSize = NMemKey
    /\ task = [c \in Call |-> IdleTask]
    /\ d1 = NoD1
    /\ client = Undefined
    /\ kv = Undefined
    /\ storage = [k \in DoKeys |->
                    IF store = "durable-object" /\ k = StoreKey
                    THEN makeRecord(StoreKey, 0) ELSE Undefined]

NextPurge ==
    \/ TickPurge
    \/ \E o \in MemObj : MemLock(o)
    \/ \E o \in MemObj : MemComplete(o)
    \/ MemPurge
    \/ \E c \in Call, k \in DoKeys : DoLockRead(c, k)
    \/ \E c \in Call : DoLockPut(c)
    \/ \E c \in Call, k \in DoKeys : DoCompleteRead(c, k)
    \/ \E c \in Call : DoCompletePut(c)
    \/ \E c \in Call : DoPurgeList(c)
    \/ \E c \in Call : DoPurgeDelete(c)

SpecPurge == InitPurge /\ [][NextPurge]_vars

(***************************************************************************)
(* The stores whose TTL is in seconds (D1, Redis, KV) while createdAt and  *)
(* Date.now() are in milliseconds                                          *)
(***************************************************************************)
\* the values Date.now() takes while these stores are called
ClockReadings == {0, 500, 999, 1000, 1001, 1500, 2000, 3000}

\* the ttl option, in seconds
SecondsTtls == {1, 2}

TickClock ==
    /\ \E t \in ClockReadings : t > now /\ now' = t
    /\ UNCHANGED <<map, heap, requestVars, storeVars>>

(***************************************************************************)
(* src/stores/cloudflare-d1.ts called directly.  The table is a set of     *)
(* rows with the key column as primary key; a statement is one step.       *)
(***************************************************************************)
ttlThreshold(t) == t - ttl * 1000

\* SELECT * FROM table WHERE key = ? AND created_at >= ?, first()
d1Select(rows, key, threshold) ==
    LET hit == { row \in rows : row.key = key /\ row.created_at >= threshold } IN
    IF hit = {} THEN Undefined ELSE CHOOSE row \in hit : TRUE

toRecord(row) ==
    [key |-> row.key, fingerprint |-> row.fingerprint, status |-> row.status,
     response |-> row.response, createdAt |-> row.created_at]

\* INSERT OR IGNORE INTO table (...) SELECT ?, ?, ?, ?, ?
\*   WHERE NOT EXISTS (SELECT 1 FROM table WHERE key = ? AND created_at >= ?):
\* the SELECT yields the new row when no live row has the key; the row is
\* inserted unless a row with its primary key is in the table
d1InsertOrIgnore(rows, key, record, threshold) ==
    LET live == \E row \in rows : row.key = key /\ row.created_at >= threshold
        new == [key |-> key, fingerprint |-> record.fingerprint, status |-> record.status,
                response |-> NoResponse, created_at |-> record.createdAt]
        conflict_ == \E row \in rows : row.key = key
    IN  IF live \/ conflict_
        THEN [rows |-> rows, changes |-> 0]
        ELSE [rows |-> rows \cup {new}, changes |-> 1]

\* an UPDATE that inserts the row when no row has the key
d1Upsert(rows, key, response) ==
    { row \in rows : row.key # key } \cup
    { [key |-> key, fingerprint |-> <<"fp">>, status |-> "completed",
       response |-> response, created_at |-> 0] }

\* UPDATE table SET status = ?, response = ? WHERE key = ?
d1Update(rows, key, response) ==
    { IF row.key = key
      THEN [row EXCEPT !.status = "completed", !.response = response]
      ELSE row : row \in rows }

\* DELETE FROM table WHERE key = ?
d1DeleteRow(rows, key) == { row \in rows : row.key # key }

\* get(key) on the table
d1Get(rows, key, t) ==
    LET row == d1Select(rows, key, ttlThreshold(t)) IN
    IF row = Undefined THEN Undefined ELSE toRecord(row)

\* ensureTable() has run
Ensured(d) == [d EXCEPT !.initialized = TRUE]

D1Get(c) ==
    /\ store = "d1"
    /\ CanStart(c)
    /\ d1' = Ensured(d1)
    /\ task' = [task EXCEPT ![c] =
                    Returned(Started_(@, "get"), d1Get(d1.rows, StoreKey, now), now)]
    /\ UNCHANGED <<now, map, heap, requestVars, store, ttl, maxSize, client, kv, storage>>

D1Lock(c) ==
    /\ store = "d1"
    /\ CanStart(c)
    /\ LET result == d1InsertOrIgnore(d1.rows, StoreKey, makeRecord(StoreKey, now),
                                      ttlThreshold(now))
       IN  /\ d1' = [Ensured(d1) EXCEPT !.rows = result.rows]
           /\ task' = [task EXCEPT ![c] =
                           Returned(Started_(@, "lock"), result.changes > 0, now)]
    /\ UNCHANGED <<now, map, heap, requestVars, store, ttl, maxSize, client, kv, storage>>

D1Complete(c) ==
    /\ store = "d1"
    /\ CanStart(c)
    /\ d1' = [Ensured(d1) EXCEPT !.rows = d1Update(d1.rows, StoreKey, makeResponse)]
    /\ task' = [task EXCEPT ![c] = Returned(Started_(@, "complete"), "void", now)]
    /\ UNCHANGED <<now, map, heap, requestVars, store, ttl, maxSize, client, kv, storage>>

D1Delete(c) ==
    /\ store = "d1"
    /\ CanStart(c)
    /\ d1' = [Ensured(d1) EXCEPT !.rows = d1DeleteRow(d1.rows, StoreKey)]
    /\ task' = [task EXCEPT ![c] = Returned(Started_(@, "delete"), "void", now)]
    /\ UNCHANGED <<now, map, heap, requestVars, store, ttl, maxSize, client, kv, storage>>

InitD1 ==
    /\ now = 0
    /\ map = <<>>
    /\ heap = [o \in Obj |-> NoRecord]
    /\ RequestsIdle
    /\ store = "d1"
    /\ ttl \in SecondsTtls
    /\ maxSize = MaxSize
    /\ BackendsUnused

NextD1 ==
    \/ TickClock
    \/ \E c \in Call : D1Get(c)
    \/ \E c \in Call : D1Lock(c)
    \/ \E c \in Call : D1Complete(c)
    \/ \E c \in Call : D1Delete(c)

SpecD1 == InitD1 /\ [][NextD1]_vars

\* store.purge() on the object d1Store returns: the object has the methods
\* get, lock, complete and delete only, so the call raises a TypeError
\* (store.purge is not a function) and no statement reaches the table
D1Purge(c) ==
    /\ store = "d1"
    /\ CanStart(c)
    /\ task' = [task EXCEPT ![c] = Raised(Started_(@, "purge"), "TypeError")]
    /\ UNCHANGED <<now, map, heap, requestVars, store, ttl, maxSize, d1, client, kv, storage>>

NextD1Purge ==
    \/ TickClock
    \/ \E c \in Call : D1Get(c)
    \/ \E c \in Call : D1Lock(c)
    \/ \E c \in Call : D1Complete(c)
    \/ \E c \in Call : D1Delete(c)
    \/ \E c \in Call : D1Purge(c)

SpecD1Purge == InitD1 /\ [][NextD1Purge]_vars

(***************************************************************************)
(* src/stores/redis.ts called directly.  The client holds, for the key, a  *)
(* string and the time at which Redis expires it.                          *)
(***************************************************************************)
\* JSON.stringify and JSON.parse of a record
JSONstringify(x) == [json |-> x]

JSONparse(raw) == raw.json

\* a stored string that is not JSON
NotJson == [notJson |-> TRUE]

\* JSON.parse(raw) returns (it raises a SyntaxError otherwise)
parses(raw) == raw # NotJson

Max(a, b) == IF a > b THEN a ELSE b

\* the value Redis or KV still holds at time t
Held(entry, t) == entry # Undefined /\ t < entry.expireAt

\* client.get(key)
redisGet(entry, t) == IF Held(entry, t) THEN entry.value ELSE Undefined

\* a SET that does not honour NX
redisSetAlways(entry, value, nx, ex, t) ==
    [entry |-> [value |-> value, expireAt |-> t + ex * 1000], reply |-> "OK"]

\* client.set(key, value, { NX, EX })
redisSet(entry, value, nx, ex, t) ==
    IF nx /\ Held(entry, t)
    THEN [entry |-> entry, reply |-> "null"]
    ELSE [entry |-> [value |-> value, expireAt |-> t + ex * 1000], reply |-> "OK"]

\* complete() writing the record back with the full TTL
remainingFull(createdAt, t) == ttl

\* the EX / expirationTtl that complete() writes the record back with
remaining(createdAt, t) == Max(1, ttl - ((t - createdAt) \div 1000))

\* a call issues one more operation
Issued(t, cmd) ==
    [t EXCEPT !.ops = Append(@, cmd), !.late = (t.pc # "idle" /\ now # t.since)]

RedisGet(c) ==
    /\ store = "redis"
    /\ CanStart(c)
    /\ LET raw == redisGet(client, now) IN
       task' = [task EXCEPT ![c] =
                   IF raw = Undefined
                   THEN Returned(Issued(Started_(@, "get"), "GET"), Undefined, now)
                   ELSE IF ~parses(raw)
                   THEN Raised(Issued(Started_(@, "get"), "GET"), "SyntaxError")
                   ELSE Returned(Issued(Started_(@, "get"), "GET"), JSONparse(raw), now)]
    /\ UNCHANGED <<now, map, heap, requestVars, store, ttl, maxSize, d1, client, kv, storage>>

\* lock(key, record); serializable: JSON.stringify(record) returns (it
\* raises a TypeError otherwise, before client.set is called)
RedisLockOf(c, serializable) ==
    /\ store = "redis"
    /\ CanStart(c)
    /\ IF serializable
       THEN LET result == redisSet(client, JSONstringify(makeRecord(StoreKey, now)),
                                   TRUE, ttl, now)
            IN  /\ client' = result.entry
                /\ task' = [task EXCEPT ![c] =
                                Returned(Issued(Started_(@, "lock"), "SET NX EX"),
                                         result.reply = "OK", now)]
       ELSE /\ client' = client
            /\ task' = [task EXCEPT ![c] = Raised(Started_(@, "lock"), "TypeError")]
    /\ UNCHANGED <<now, map, heap, requestVars, store, ttl, maxSize, d1, kv, storage>>

RedisLock(c) == RedisLockOf(c, TRUE)

\* client.get of complete: nothing to do, or JSON.parse or JSON.stringify
\* raises, or client.set is issued
RedisCompleteReadOf(c, serializable) ==
    /\ store = "redis"
    /\ CanStart(c)
    /\ LET raw == redisGet(client, now) IN
       task' = [task EXCEPT ![c] =
                   IF raw = Undefined
                   THEN Returned(Issued(Started_(@, "complete"), "GET"), "void", now)
                   ELSE IF ~parses(raw)
                   THEN Raised(Issued(Started_(@, "complete"), "GET"), "SyntaxError")
                   ELSE IF ~serializable
                   THEN Raised(Issued(Started_(@, "complete"), "GET"), "TypeError")
                   ELSE LET record == [JSONparse(raw) EXCEPT !.status = "completed",
                                                              !.response = makeResponse]
                        IN  [Issued(Started_(@, "complete"), "GET") EXCEPT
                               !.pc = "set",
                               !.tmp = [value |-> JSONstringify(record),
                                        ex |-> remaining(record.createdAt, now)]]]
    /\ UNCHANGED <<now, map, heap, requestVars, store, ttl, maxSize, d1, client, kv, storage>>

RedisCompleteRead(c) == RedisCompleteReadOf(c, TRUE)

RedisCompleteSet(c) ==
    /\ store = "redis"
    /\ task[c].op = "complete" /\ task[c].pc = "set"
    /\ client' = redisSet(client, task[c].tmp.value, FALSE, task[c].tmp.ex, now).entry
    /\ task' = [task EXCEPT ![c] = Returned(Issued(@, "SET EX"), "void", now)]
    /\ UNCHANGED <<now, map, heap, requestVars, store, ttl, maxSize, d1, kv, storage>>

RedisDelete(c) ==
    /\ store = "redis"
    /\ CanStart(c)
    /\ client' = Undefined
    /\ task' = [task EXCEPT ![c] = Returned(Issued(Started_(@, "delete"), "DEL"), "void", now)]
    /\ UNCHANGED <<now, map, heap, requestVars, store, ttl, maxSize, d1, kv, storage>>

(***************************************************************************)
(* src/stores/cloudflare-kv.ts, kvStore, called directly.  The namespace   *)
(* answers every get with the value written last (one location).          *)
(***************************************************************************)
\* { ...record, lockId }
withLock(record, lockId) ==
    [key |-> record.key, fingerprint |-> record.fingerprint, status |-> record.status,
     response |-> record.response, createdAt |-> record.createdAt, lockId |-> lockId]

\* const { lockId: _, ...record } = raw
stripLock(raw) ==
    [key |-> raw.key, fingerprint |-> raw.fingerprint, status |-> raw.status,
     response |-> raw.response, createdAt |-> raw.createdAt]

\* kv.get(key, { type: "json" }) raises: the value held is not JSON
kvReadRaises(entry, t) == Held(entry, t) /\ ~parses(entry.value)

\* kv.get(key, { type: "json" })
kvRead(entry, t) == IF Held(entry, t) THEN JSONparse(entry.value) ELSE Undefined

\* kv.put(key, value, { expirationTtl })
kvPut(value, expirationTtl, t) == [value |-> value, expireAt |-> t + expirationTtl * 1000]

\* a read-back that compares fingerprints
kvVerifyByFingerprint(stored, withLockId) ==
    stored # Undefined /\ stored.fingerprint = withLockId.fingerprint

\* stored?.lockId === lockId
kvVerify(stored, withLockId) ==
    stored # Undefined /\ stored.lockId = withLockId.lockId

KvGet(c) ==
    /\ store = "kv"
    /\ CanStart(c)
    /\ task' = [task EXCEPT ![c] =
                    IF kvReadRaises(kv, now)
                    THEN Raised(Issued(Started_(@, "get"), "get"), "SyntaxError")
                    ELSE LET raw == kvRead(kv, now) IN
                         Returned(Issued(Started_(@, "get"), "get"),
                                  IF raw = Undefined THEN Undefined ELSE stripLock(raw), now)]
    /\ UNCHANGED <<now, map, heap, requestVars, store, ttl, maxSize, d1, client, kv, storage>>

\* the first kv.get of lock: false is returned, or kv.put is issued with
\* the lockId of this call (crypto.randomUUID(): the call's number)
\* serializable: JSON.stringify(withLock) returns (lock returns false
\* otherwise)
KvLockReadOf(c, serializable) ==
    /\ store = "kv"
    /\ CanStart(c)
    /\ task' = [task EXCEPT ![c] =
                    IF kvReadRaises(kv, now)
                    THEN Raised(Issued(Started_(@, "lock"), "get"), "SyntaxError")
                    ELSE IF kvRead(kv, now) # Undefined
                    THEN Returned(Issued(Started_(@, "lock"), "get"), FALSE, now)
                    ELSE IF ~serializable
                    THEN Returned(Issued(Started_(@, "lock"), "get"), FALSE, now)
                    ELSE [Issued(Started_(@, "lock"), "get") EXCEPT
                            !.pc = "put",
                            !.tmp = withLock(makeRecord(StoreKey, now), c)]]
    /\ UNCHANGED <<now, map, heap, requestVars, store, ttl, maxSize, d1, client, kv, storage>>

KvLockRead(c) == KvLockReadOf(c, TRUE)

\* kv.put of lock takes effect and the read-back is issued
KvLockPut(c) ==
    /\ store = "kv"
    /\ task[c].op = "lock" /\ task[c].pc = "put"
    /\ kv' = kvPut(JSONstringify(task[c].tmp), ttl, now)
    /\ task' = [task EXCEPT ![c] = [Issued(@, "put") EXCEPT !.pc = "readback"]]
    /\ UNCHANGED <<now, map, heap, requestVars, store, ttl, maxSize, d1, client, storage>>

\* the read-back of lock
KvLockVerify(c) ==
    /\ store = "kv"
    /\ task[c].op = "lock" /\ task[c].pc = "readback"
    /\ task' = [task EXCEPT ![c] =
                    IF kvReadRaises(kv, now)
                    THEN Raised(Issued(@, "get"), "SyntaxError")
                    ELSE Returned(Issued(@, "get"),
                                  kvVerify(kvRead(kv, now), task[c].tmp), now)]
    /\ UNCHANGED <<now, map, heap, requestVars, store, ttl, maxSize, d1, client, kv, storage>>

\* serializable: JSON.stringify(record) returns (complete returns
\* otherwise, without kv.put)
KvCompleteReadOf(c, serializable) ==
    /\ store = "kv"
    /\ CanStart(c)
    /\ task' = [task EXCEPT ![c] =
                    IF kvReadRaises(kv, now)
                    THEN Raised(Issued(Started_(@, "complete"), "get"), "SyntaxError")
                    ELSE LET raw == kvRead(kv, now) IN
                    IF raw = Undefined
                    THEN Returned(Issued(Started_(@, "complete"), "get"), "void", now)
                    ELSE IF ~serializable
                    THEN Returned(Issued(Started_(@, "complete"), "get"), "void", now)
                    ELSE LET record == [raw EXCEPT !.status = "completed",
                                                   !.response = makeResponse]
                         IN  [Issued(Started_(@, "complete"), "get") EXCEPT
                                !.pc = "put",
                                !.tmp = [value |-> JSONstringify(record),
                                         ex |-> remaining(record.createdAt, now)]]]
    /\ UNCHANGED <<now, map, heap, requestVars, store, ttl, maxSize, d1, client, kv, storage>>

KvCompleteRead(c) == KvCompleteReadOf(c, TRUE)

KvCompletePut(c) ==
    /\ store = "kv"
    /\ task[c].op = "complete" /\ task[c].pc = "put"
    /\ kv' = kvPut(task[c].tmp.value, task[c].tmp.ex, now)
    /\ task' = [task EXCEPT ![c] = Returned(Issued(@, "put"), "void", now)]
    /\ UNCHANGED <<now, map, heap, requestVars, store, ttl, maxSize, d1, client, storage>>

KvDelete(c) ==
    /\ store = "kv"
    /\ CanStart(c)
    /\ kv' = Undefined
    /\ task' = [task EXCEPT ![c] = Returned(Issued(Started_(@, "delete"), "delete"), "void", now)]
    /\ UNCHANGED <<now, map, heap, requestVars, store, ttl, maxSize, d1, client, storage>>

InitRemote(stores) ==
    /\ now = 0
    /\ map = <<>>
    /\ heap = [o \in Obj |-> NoRecord]
    /\ RequestsIdle
    /\ store \in stores
    /\ ttl \in SecondsTtls
    /\ maxSize = MaxSize
    /\ BackendsUnused

InitRedis == InitRemote({"redis"})

NextRedis ==
    \/ TickClock
    \/ \E c \in Call : RedisGet(c)
    \/ \E c \in Call : RedisLock(c)
    \/ \E c \in Call : RedisCompleteRead(c)
    \/ \E c \in Call : RedisCompleteSet(c)
    \/ \E c \in Call : RedisDelete(c)

SpecRedis == InitRedis /\ [][NextRedis]_vars

InitKv == InitRemote({"kv"})

NextKv ==
    \/ TickClock
    \/ \E c \in Call : KvGet(c)
    \/ \E c \in Call : KvLockRead(c)
    \/ \E c \in Call : KvLockPut(c)
    \/ \E c \in Call : KvLockVerify(c)
    \/ \E c \in Call : KvCompleteRead(c)
    \/ \E c \in Call : KvCompletePut(c)
    \/ \E c \in Call : KvDelete(c)

SpecKv == InitKv /\ [][NextKv]_vars

InitRedisKv == InitRemote({"redis", "kv"})

NextRedisKv ==
    \/ TickClock
    \/ \E c \in Call : RedisGet(c)
    \/ \E c \in Call : RedisLock(c)
    \/ \E c \in Call : RedisCompleteRead(c)
    \/ \E c \in Call : RedisCompleteSet(c)
    \/ \E c \in Call : RedisDelete(c)
    \/ \E c \in Call : KvGet(c)
    \/ \E c \in Call : KvLockRead(c)
    \/ \E c \in Call : KvLockPut(c)
    \/ \E c \in Call : KvLockVerify(c)
    \/ \E c \in Call : KvCompleteRead(c)
    \/ \E c \in Call : KvCompletePut(c)
    \/ \E c \in Call : KvDelete(c)

SpecRedisKv == InitRedisKv /\ [][NextRedisKv]_vars

(***************************************************************************)
(* The Redis and KV stores with values that JSON.stringify raises on and   *)
(* with a stored string that is not JSON.                                  *)
(***************************************************************************)
\* another writer of the Redis database or KV namespace stores, under the
\* key, a string that is not JSON
ForeignWrite ==
    /\ store \in {"redis", "kv"}
    /\ \A c \in Call : task[c].pc = "idle"
    /\ IF store = "redis"
       THEN client' = [value |-> NotJson, expireAt |-> now + ttl * 1000] /\ kv' = kv
       ELSE kv' = [value |-> NotJson, expireAt |-> now + ttl * 1000] /\ client' = client
    /\ UNCHANGED <<now, map, heap, requestVars, store, ttl, maxSize, d1, task, storage>>

NextSerial ==
    \/ TickClock
    \/ ForeignWrite
    \/ \E c \in Call : RedisGet(c)
    \/ \E c \in Call, serializable \in BOOLEAN : RedisLockOf(c, serializable)
    \/ \E c \in Call, serializable \in BOOLEAN : RedisCompleteReadOf(c, serializable)
    \/ \E c \in Call : RedisCompleteSet(c)
    \/ \E c \in Call : KvGet(c)
    \/ \E c \in Call, serializable \in BOOLEAN : KvLockReadOf(c, serializable)
    \/ \E c \in Call : KvLockPut(c)
    \/ \E c \in Call : KvLockVerify(c)
    \/ \E c \in Call, serializable \in BOOLEAN : KvCompleteReadOf(c, serializable)
    \/ \E c \in Call : KvCompletePut(c)

SpecSerial == InitRedisKv /\ [][NextSerial]_vars

(***************************************************************************)
(* The five stores called directly, each with the clock of its own ttl     *)
(* unit (milliseconds for the in-memory and durable object stores, seconds *)
(* for the others).                                                        *)
(***************************************************************************)
LocalStores == {"memory", "durable-object"}

RemoteStores == {"d1", "redis", "kv"}

TickStores == IF store \in LocalStores THEN TickStore ELSE TickClock

InitStores ==
    \/ InitLocal /\ maxSize = 2
    \/ InitRemote(RemoteStores)

NextStores ==
    \/ TickStores
    \/ \E o \in MemObj : MemLock(o)
    \/ \E o \in MemObj : MemGet(o)
    \/ \E o \in MemObj : MemComplete(o)
    \/ \E o \in MemObj : MemDelete(o)
    \/ \E c \in Call, k \in DoKeys : DoGet(c, k)
    \/ \E c \in Call, k \in DoKeys : DoLockRead(c, k)
    \/ \E c \in Call : DoLockPut(c)
    \/ \E c \in Call, k \in DoKeys : DoCompleteRead(c, k)
    \/ \E c \in Call : DoCompletePut(c)
    \/ \E c \in Call, k \in DoKeys : DoDelete(c, k)
    \/ \E c \in Call : D1Get(c)
    \/ \E c \in Call : D1Lock(c)
    \/ \E c \in Call : D1Complete(c)
    \/ \E c \in Call : D1Delete(c)
    \/ \E c \in Call : RedisGet(c)
    \/ \E c \in Call : RedisLock(c)
    \/ \E c \in Call : RedisCompleteRead(c)
    \/ \E c \in Call : RedisCompleteSet(c)
    \/ \E c \in Call : RedisDelete(c)
    \/ \E c \in Call : KvGet(c)
    \/ \E c \in Call : KvLockRead(c)
    \/ \E c \in Call : KvLockPut(c)
    \/ \E c \in Call : KvLockVerify(c)
    \/ \E c \in Call : KvCompleteRead(c)
    \/ \E c \in Call : KvCompletePut(c)
    \/ \E c \in Call : KvDelete(c)

SpecStores == InitStores /\ [][NextStores]_vars

(***************************************************************************)
(* src/errors.ts, problemResponse called directly on problems of any       *)
(* status.                                                                 *)
(***************************************************************************)
ProblemStatuses ==
    { Num(i) : i \in {-1, 0, 99, 199, 200, 204, 205, 304, 409, 599, 600, 999} } \cup {NaN}

ProblemHeaders == { {}, {<<"Retry-After", "1">>} }

ProblemResponseCall(c, status, extraHeaders, stringifies) ==
    /\ store = "none"
    /\ CanStart(c)
    /\ LET call == [status |-> status, extraHeaders |-> extraHeaders,
                    stringifies |-> stringifies]
           result == problemResponseOf([status |-> status, code |-> "CONFLICT"],
                                       extraHeaders, stringifies)
       IN  task' = [task EXCEPT ![c] =
                       IF result.threw = "no"
                       THEN Returned(StartedOn(@, "problemResponse", call), result.res, now)
                       ELSE Raised(StartedOn(@, "problemResponse", call), result.threw)]
    /\ UNCHANGED <<now, map, heap, requestVars, store, ttl, maxSize, d1, client, kv, storage>>

InitErrors ==
    /\ now = 0
    /\ map = <<>>
    /\ heap = [o \in Obj |-> NoRecord]
    /\ RequestsIdle
    /\ store = "none"
    /\ ttl = Ttl
    /\ maxSize = MaxSize
    /\ BackendsUnused

NextErrors ==
    \E c \in Call, status \in ProblemStatuses, extraHeaders \in ProblemHeaders,
       stringifies \in BOOLEAN :
        ProblemResponseCall(c, status, extraHeaders, stringifies)

SpecErrors == InitErrors /\ [][NextErrors]_vars

(***************************************************************************)
(* Vocabulary of the properties                                            *)
(***************************************************************************)
Started(r) == pc[r] # "idle"

Done(r) == pc[r] = "done"

Is2xx(status) == status \in 200..299

\* the requests received so far under store key sk
Group(sk) == { r \in Req : Started(r) /\ storeKey[r] = sk }

\* a handler run under sk has failed and released the key
FailedOn(sk) == \E r \in Group(sk) : Done(r) /\ ran[r] /\ ~Is2xx(resp[r].status)

\* a record created under sk has reached its TTL or, once completed, has
\* left the map (eviction)
LostOn(sk) ==
    \E o \in Group(sk) :
        /\ heap[o].status # "none"
        /\ \/ now - heap[o].createdAt >= ttl
           \/ heap[o].status = "completed" /\ MapGet(map, sk) # o

ReplayMarker == <<"idempotency-replayed", "true">>

IsConflict409(response) ==
    /\ response.status = 409
    /\ <<"retry-after", "1">> \in response.headers

\* request r takes its Inspect step
InspectStep(r) == pc[r] = "inspect" /\ pc'[r] # "inspect"

\* request r takes its Receive step
ReceiveStep(r) == pc[r] = "idle" /\ pc'[r] # "idle"

\* request r takes its Finish step
FinishStep(r) == pc[r] = "executing" /\ pc'[r] # "executing"

\* a live record occupies store key sk
Live(sk) == MapHas(map, sk) /\ now - heap[MapGet(map, sk)].createdAt < ttl

CallsLock(r) ==
    /\ InspectStep(r)
    /\ existing[r] # 0 => inspect(heap[existing[r]], fp[r]) = "lock"

\* C2: a memoryStore.lock call returns true (the caller goes on to the
\* handler and its record is the one stored under the key) exactly when no
\* live record occupies the key; otherwise it returns false and the record
\* stored under the key, and every record object, is left unchanged; the map
\* never holds two entries for one key.
C2_LockOnce ==
    /\ [](\A i, j \in 1..Len(map) : map[i].key = map[j].key => i = j)
    /\ [][\A r \in Req :
            CallsLock(r) =>
                LET sk == storeKey[r] IN
                IF Live(sk)
                THEN /\ pc'[r] = "done"
                     /\ ~ran'[r]
                     /\ MapGet(map', sk) = MapGet(map, sk)
                     /\ heap' = heap
                ELSE /\ pc'[r] = "executing"
                     /\ MapGet(map', sk) = r
                     /\ heap'[r].status = "processing"]_vars

\* two requests raced on one key after both saw it absent: one holds the
\* lock, the other was refused
C2_Witness ==
    \E r, q \in Req :
        /\ r # q
        /\ input[r] = input[q]
        /\ existing[r] = 0 /\ existing[q] = 0
        /\ pc[r] = "executing"
        /\ Done(q) /\ ~ran[q] /\ resp[q].status = 409

(***************************************************************************)
(* C3                                                                      *)
(***************************************************************************)
\* C3: when the handler of r throws or returns a status outside 200..299,
\* the step that hands the failure to the caller leaves no record under r's
\* store key; the record of a request that failed is never in the store
\* afterwards, so no later request is answered from it: a request that
\* arrives while its key is absent gets undefined from get, and if the key
\* is still absent when it calls lock it runs the handler.
C3_FailureReleases ==
    /\ [](\A r \in Req :
            (Done(r) /\ ran[r] /\ ~Is2xx(resp[r].status)) => r \notin MapObjs(map))
    /\ [][\A r \in Req :
            (FinishStep(r) /\ ~Is2xx(resp'[r].status))
                => ~MapHas(map', storeKey[r])]_vars
    /\ [][\A q \in Req :
            /\ (ReceiveStep(q) /\ ~MapHas(map, storeKey'[q])) => existing'[q] = 0
            /\ (InspectStep(q) /\ existing[q] = 0 /\ ~MapHas(map, storeKey[q]))
                    => (pc'[q] = "executing" /\ ran'[q])]_vars

\* a request failed with 500 and a later request with the same key and
\* body, which got undefined from get, ran the handler and succeeded
C3_Witness ==
    \E r, q \in Req :
        /\ r < q
        /\ input[r] = input[q]
        /\ Done(r) /\ ran[r] /\ resp[r].status = 500
        /\ Done(q) /\ existing[q] = 0 /\ ran[q] /\ Is2xx(resp[q].status)
        /\ heap[r].createdAt = now

(***************************************************************************)
(* C4                                                                      *)
(***************************************************************************)
\* the record object o is completed, holds a response and has fingerprint f
Replayable(o, f) ==
    /\ o # 0
    /\ heap[o].status = "completed"
    /\ heap[o].response # NoResponse
    /\ heap[o].fingerprint = f

C6_MismatchLeavesRecord ==
    [][\A q \in Req :
        ( /\ InspectStep(q)
          /\ existing[q] # 0
          /\ heap[existing[q]].status = "completed"
          /\ heap[existing[q]].fingerprint # fp[q] )
            => /\ pc'[q] = "done"
               /\ resp'[q].status = 422
               /\ resp'[q].body = <<"FINGERPRINT_MISMATCH", 0>>
               /\ ~ran'[q]
               /\ map' = map
               /\ heap' = heap]_vars

\* after a success, a request with the same key and another body got 422
\* and the record still holds the first response
C6_Witness ==
    \E r, q \in Req :
        /\ r < q
        /\ storeKey[q] = storeKey[r] /\ fp[q] # fp[r]
        /\ Done(r) /\ ran[r] /\ Is2xx(resp[r].status)
        /\ Done(q) /\ ~ran[q] /\ resp[q].status = 422 /\ existing[q] = r
        /\ MapGet(map, storeKey[r]) = r
        /\ heap[r].status = "completed"
        /\ heap[r].fingerprint = fp[r]
        /\ heap[r].response.body = resp[r].body

(***************************************************************************)
(* C7                                                                      *)
(***************************************************************************)
\* C7: a request that inspects a record in processing state, whatever its
\* fingerprint, or that got undefined from get and calls lock while a live
\* record occupies its key, is answered with 409 and Retry-After: 1, and
\* its handler is not invoked.
C7_Conflict ==
    [][\A q \in Req :
        ( /\ InspectStep(q)
          /\ \/ existing[q] # 0 /\ heap[existing[q]].status = "processing"
             \/ existing[q] = 0 /\ Live(storeKey[q]) )
            => /\ pc'[q] = "done"
               /\ IsConflict409(resp'[q])
               /\ resp'[q].body = <<"CONFLICT", 0>>
               /\ ~ran'[q]]_vars

\* a request saw the processing record of a request with another body and
\* got 409 while that request's handler was still running
C7_Witness ==
    \E r, q \in Req :
        /\ storeKey[q] = storeKey[r]
        /\ pc[r] = "executing"
        /\ Done(q) /\ existing[q] = r /\ fp[q] # fp[r] /\ ~ran[q]
        /\ IsConflict409(resp[q])

(***************************************************************************)
(* C8                                                                      *)
(***************************************************************************)
KeyTuple(in) == <<in.prefix, in.method, in.path, in.key>>

\* prefixes, methods, paths and raw keys with and without the delimiter
KeyTuples ==
    { [prefix |-> x, method |-> m, path |-> pa, key |-> k] :
        x \in { NoPrefix, PrefixA, PrefixCrafted, POST, <<"a", "%", "3", "A">> },
        m \in { POST, PATCH },
        pa \in { PathD, PathE, PathD \o COLON \o <<"x">> },
        k \in { KeyY, KeyCrafted, <<"x">>, <<"x">> \o COLON \o <<"y">>,
                <<"x", "%", "3", "A", "y">>, <<"x", "/", "y">> } }

\* C8: tuples (prefix, method, path, key) that differ have different store
\* keys, also when prefix or key contain ':' or '/'; two requests with the
\* same store key have the same tuple, and a record that a request finds
\* under its store key, or gets from store.get, was created by a request
\* with the same tuple.
C8_KeyIsolation ==
    /\ (now = 0 /\ \A r \in Req : pc[r] = "idle") =>
          \A a, b \in KeyTuples :
              buildStoreKey(a.prefix, a.method, a.path, a.key)
                  = buildStoreKey(b.prefix, b.method, b.path, b.key) => a = b
    /\ \A r, q \in Req :
          (Started(r) /\ Started(q) /\ storeKey[r] = storeKey[q])
              => KeyTuple(input[r]) = KeyTuple(input[q])
    /\ \A r \in Req : \A i \in 1..Len(map) :
          (Started(r) /\ map[i].key = storeKey[r] /\ map[i].obj \in Req)
              => KeyTuple(input[map[i].obj]) = KeyTuple(input[r])
    /\ \A r \in Req :
          existing[r] \in Req => KeyTuple(input[existing[r]]) = KeyTuple(input[r])

\* tenant "a" with key "x:POST:/d:y" and tenant "a:POST:/d:x" with key "y",
\* whose unencoded store keys would be equal, both ran their handler
C8_Witness ==
    \E r, q \in Req :
        /\ input[r].prefix = PrefixA /\ input[r].key = KeyCrafted
        /\ input[q].prefix = PrefixCrafted /\ input[q].key = KeyY
        /\ input[r].method = input[q].method /\ input[r].path = input[q].path
        /\ storeKeyRaw(input[r].prefix, input[r].method, input[r].path, input[r].key)
             = storeKeyRaw(input[q].prefix, input[q].method, input[q].path, input[q].key)
        /\ storeKey[r] # storeKey[q]
        /\ Done(r) /\ ran[r] /\ Is2xx(resp[r].status)
        /\ Done(q) /\ ran[q] /\ Is2xx(resp[q].status)

(***************************************************************************)
(* C9                                                                      *)
(***************************************************************************)
HasCookie(headers) == \E h \in headers : h[1] = "set-cookie"

C10_CorruptRecovered ==
    \A r \in Req :
        ( /\ Done(r)
          /\ existing[r] = DirectObj
          /\ heap[DirectObj].status = "completed"
          /\ heap[DirectObj].response = NoResponse
          /\ heap[DirectObj].fingerprint = fp[r] )
            => (ran[r] /\ DirectObj \notin MapObjs(map))

(***************************************************************************)
(* C11                                                                     *)
(***************************************************************************)
\* the record of request r is completed with a response, stored under r's
\* store key and not expired
CompletedLive(r) ==
    /\ Done(r)
    /\ MapGet(map, storeKey[r]) = r
    /\ heap[r].status = "completed"
    /\ heap[r].response # NoResponse
    /\ ~isExpired(heap[r], now)

SameKey(a, b) == a.prefix = b.prefix /\ a.key = b.key

OnlyMethod(a, b) ==
    SameKey(a, b) /\ a.method # b.method /\ a.path = b.path /\ a.body = b.body

OnlyPath(a, b) ==
    SameKey(a, b) /\ a.method = b.method /\ a.path # b.path /\ a.body = b.body

OnlyBody(a, b) ==
    SameKey(a, b) /\ a.method = b.method /\ a.path = b.path /\ a.body # b.body

\* the record store.get has handed to q leads to 422
GetsMismatch(q) ==
    /\ existing'[q] # 0
    /\ inspect(heap[existing'[q]], fp'[q]) = "mismatch"

\* C11 as stated: a request that arrives while a completed record for its
\* idempotency key is stored, and that differs from the request that made
\* the record in the method only, in the path only or in the body only, is
\* answered with FingerprintMismatch.
C11_EachVariesToMismatch ==
    [][ \A q, r \in Req :
          ( /\ ReceiveStep(q)
            /\ CompletedLive(r)
            /\ \/ OnlyMethod(input'[q], input[r])
               \/ OnlyPath(input'[q], input[r])
               \/ OnlyBody(input'[q], input[r]) )
          => GetsMismatch(q) ]_vars

\* C11 (amended): a request that arrives while a completed record for its
\* idempotency key is stored is replayed if it equals the request that made
\* the record, and is on its way to FingerprintMismatch if only its body
\* differs; if its method or its path differs it has another store key and
\* does not get that record from store.get: it gets nothing or a record
\* stored under its own store key.  422 is only ever the answer to a record
\* stored under the request's own store key, that is one made by a request
\* with the same method and path and another body.
C11_BodyVariesToMismatch ==
    /\ [](\A q \in Req :
            (Done(q) /\ resp[q].status = 422)
                => /\ existing[q] \in Req
                   /\ storeKey[existing[q]] = storeKey[q]
                   /\ input[existing[q]].method = input[q].method
                   /\ input[existing[q]].path = input[q].path
                   /\ input[existing[q]].body # input[q].body)
    /\ [][ \A q, r \in Req :
             (ReceiveStep(q) /\ CompletedLive(r)) =>
                /\ input'[q] = input[r] =>
                     /\ existing'[q] = r
                     /\ inspect(heap[r], fp'[q]) = "replay"
                /\ OnlyBody(input'[q], input[r]) =>
                     /\ existing'[q] = r
                     /\ GetsMismatch(q)
                /\ (OnlyMethod(input'[q], input[r]) \/ OnlyPath(input'[q], input[r])) =>
                     /\ storeKey'[q] # storeKey[r]
                     /\ existing'[q] # r
                     /\ existing'[q] # 0 =>
                          storeKey[existing'[q]] = storeKey'[q] ]_vars

\* POST /d was completed; the same key and body sent with PATCH then got
\* the lock under its own store key (its insertion pushed the completed
\* record out of the map of size 1) and ran the handler
C11_Witness ==
    \E r, q \in Req :
        /\ r < q
        /\ Done(r) /\ heap[r].status = "completed" /\ Is2xx(resp[r].status)
        /\ heap[r].createdAt = now
        /\ ~MapHas(map, storeKey[r])
        /\ OnlyMethod(input[q], input[r])
        /\ Done(q) /\ existing[q] = 0 /\ ran[q] /\ Is2xx(resp[q].status)

(***************************************************************************)
(* C12                                                                     *)
(***************************************************************************)
\* C12: when the handler of r returns a response, the caller gets that
\* response as it is; if its status is in 200..299 the map is left as it
\* is and the record r locked, if it is still the one stored under the
\* key, becomes completed with the captured response; for every other
\* status the key is deleted and no record changes.
C12_SuccessIs2xx ==
    [][ \A r \in Req :
          (FinishStep(r) /\ resp'[r] # NoResponse) =>
             LET sk == storeKey[r]
                 res == resp'[r]
             IN  /\ \E x \in StatusResults(r) \cup HandlerResults(r) : x.res = res
                 /\ res.status \in 200..299 =>
                      /\ map' = map
                      /\ MapGet(map, sk) = r =>
                           /\ heap'[r].status = "completed"
                           /\ heap'[r].response =
                                [status |-> res.status,
                                 headers |-> { h \in res.headers : h[1] # "set-cookie" },
                                 body |-> res.body]
                 /\ res.status \notin 200..299 =>
                      /\ ~MapHas(map', sk)
                      /\ heap' = heap ]_vars

\* one handler answered 300 and its key was released, the handler of the
\* next request on the key answered 299 and its record is completed
C12_Witness ==
    \E r, q \in Req :
        /\ r < q
        /\ storeKey[r] = storeKey[q]
        /\ Done(r) /\ ran[r] /\ resp[r].status = 300
        /\ Done(q) /\ ran[q] /\ resp[q].status = 299
        /\ MapGet(map, storeKey[q]) = q
        /\ heap[q].status = "completed"
        /\ heap[q].response.status = 299

(***************************************************************************)
(* C13                                                                     *)
(***************************************************************************)
\* a row of the key that get does not hide
D1Live == d1Select(d1.rows, StoreKey, ttlThreshold(now)) # Undefined

\* C13: a d1Store.lock call returns false if a live row exists for the key
\* and otherwise, also when an expired row of the key is still in the
\* table, returns true and leaves its processing record visible to get.
C13_D1LockIffNoLiveRow ==
    [][ \A c \in Call :
          (store = "d1" /\ task[c].pc = "idle" /\ task'[c].op = "lock") =>
              IF D1Live
              THEN task'[c].ret = FALSE /\ d1'.rows = d1.rows
              ELSE /\ task'[c].ret = TRUE
                   /\ d1Get(d1'.rows, StoreKey, now) = makeRecord(StoreKey, now) ]_vars

(***************************************************************************)
(* C15                                                                     *)
(***************************************************************************)
\* C15: a row created at T with a TTL of D seconds is returned by get and
\* blocks lock at every time up to T + 1000 * D - 1, and is hidden from get
\* and does not block lock from T + 1000 * D on.
C15_D1Boundary ==
    store = "d1" =>
        \A row \in d1.rows :
            LET live == now <= row.created_at + 1000 * ttl - 1
                l == d1InsertOrIgnore(d1.rows, row.key, makeRecord(row.key, now),
                                      ttlThreshold(now))
            IN  /\ d1Get(d1.rows, row.key, now) = (IF live THEN toRecord(row) ELSE Undefined)
                /\ live => l.changes = 0
                /\ (\E r2 \in d1.rows : r2.key = row.key /\ r2.created_at >= ttlThreshold(now))
                     = live

(***************************************************************************)
(* C14                                                                     *)
(***************************************************************************)
\* C14: in the in-memory store, for a record created at T that is in the
\* map under a key, with TTL D: up to time T+D-1 get returns it and lock on
\* the key returns false; from T+D on get returns undefined, removing the
\* entry, and lock returns true and stores the new record.  In the durable
\* object store the same holds of the value stored under the key, with the
\* time taken when storage.get has answered: a refused lock writes nothing
\* and an admitted lock writes its record and returns true.
C14_TtlBoundary ==
    /\ [](store = "memory" =>
            \A o \in MemObj :
                MapGet(map, MemKey(o)) = o =>
                    LET live == now <= heap[o].createdAt + ttl - 1
                        g == storeGet(map, heap, MemKey(o), now)
                        l == storeLock(map, heap, MemKey(o), o, makeRecord(MemKey(o), now), now)
                    IN  /\ g.rec = (IF live THEN o ELSE 0)
                        /\ ~live => ~MapHas(g.map, MemKey(o))
                        /\ l.ok = ~live
                        /\ ~live => (MapGet(l.map, MemKey(o)) = o
                                      /\ l.heap[o] = makeRecord(MemKey(o), now)))
    /\ [](\A k \in DoKeys :
            (store = "durable-object" /\ storage[k] # Undefined) =>
               LET live == now <= storage[k].createdAt + ttl - 1 IN
               /\ doGet(storage[k], now) = (IF live THEN storage[k] ELSE Undefined)
               /\ doLockRefuses(storage[k], now) = live)
    /\ [][ \A c \in Call :
             (store = "durable-object" /\ task[c].pc = "idle" /\ task'[c].op = "lock") =>
                 LET k == task'[c].key IN
                 IF storage[k] # Undefined /\ now <= storage[k].createdAt + ttl - 1
                 THEN task'[c].pc = "done" /\ task'[c].ret = FALSE /\ storage' = storage
                 ELSE task'[c].pc = "put" ]_vars
    /\ [][ \A c \in Call :
             (store = "durable-object" /\ task[c].op = "lock" /\ task[c].pc = "put"
                 /\ task'[c].pc = "done") =>
                 /\ task'[c].ret = TRUE
                 /\ storage' = [storage EXCEPT ![task[c].key] = task[c].tmp] ]_vars

\* in the durable object store a record was locked at time 0, a second lock
\* called at time 0 + ttl was admitted and its record is the stored one
C14_Witness ==
    /\ store = "durable-object"
    /\ task[1].op = "lock" /\ task[1].pc = "done" /\ task[1].ret = TRUE
    /\ task[2].op = "lock" /\ task[2].pc = "done" /\ task[2].ret = TRUE
    /\ task[1].key = task[2].key
    /\ storage[task[2].key] # Undefined
    /\ storage[task[2].key].createdAt = ttl
    /\ now = ttl

(***************************************************************************)
(* C16                                                                     *)
(***************************************************************************)
\* the call made in this step, if it is a call of the in-memory store
MemCall(op, k) == now' = now /\ task'[1].op = op /\ task'[1].key = k

\* the entry of object o: a processing record that has not expired
HeldEntry(o) ==
    /\ MapGet(map, MemKey(o)) = o
    /\ heap[o].status = "processing"
    /\ now <= heap[o].createdAt + ttl - 1

\* C16: a processing record that has not expired stays in the map, the
\* same object under the same key, through every store call that is not a
\* complete or a delete of its key, whatever maxSize is; while it is there
\* a lock on its key returns false and changes nothing.
C16_ProcessingNeverEvicted ==
    /\ [](\A o \in Obj :
            HeldEntry(o) =>
                LET l == storeLock(map, heap, MemKey(o), o, makeRecord(MemKey(o), now), now)
                IN  ~l.ok /\ l.heap = heap /\ MapGet(l.map, MemKey(o)) = o)
    /\ [][ \A o \in Obj :
             ( /\ HeldEntry(o)
               /\ now' = now
               /\ ~MemCall("complete", MemKey(o))
               /\ ~MemCall("delete", MemKey(o)) )
             => /\ MapGet(map', MemKey(o)) = o
                /\ heap'[o] = heap[o] ]_vars

\* the map holds more entries than maxSize, all of them processing, after a
\* lock that returned true
C16_Witness ==
    /\ store = "memory"
    /\ Len(map) > maxSize
    /\ \A i \in 1..Len(map) : HeldEntry(map[i].obj)
    /\ task[1].op = "lock" /\ task[1].ret = TRUE

(***************************************************************************)
(* C17                                                                     *)
(***************************************************************************)
\* the sequence L without the entries at the indices in R
Without(L, R) ==
    LET F[i \in 0..Len(L)] ==
            IF i = 0 THEN <<>>
            ELSE IF i \in R THEN F[i - 1] ELSE Append(F[i - 1], L[i])
    IN  F[Len(L)]

\* C17: a lock that returns true leaves the map as follows: the entries
\* that were not expired, in their order, then the new entry, minus the
\* completed entries that come first in that order, as many of them as the
\* list is over maxSize (all of them if there are fewer); the map is then
\* over maxSize only if it holds no completed record.
C17_EvictOldestCompleted ==
    [][ \A o \in Obj :
          (MemCall("lock", MemKey(o)) /\ task'[1].ret = TRUE) =>
             LET kept == SelectSeq(map, LAMBDA e : now < heap[e.obj].createdAt + ttl)
                 L == Append(kept, [key |-> MemKey(o), obj |-> o])
                 C == { i \in 1..Len(L) : heap'[L[i].obj].status = "completed" }
                 over == IF Len(L) > maxSize THEN Len(L) - maxSize ELSE 0
                 n == IF Cardinality(C) < over THEN Cardinality(C) ELSE over
                 R == { i \in C : Cardinality({ j \in C : j < i }) < n }
             IN  /\ map' = Without(L, R)
                 /\ Len(map') > maxSize =>
                      \A i \in 1..Len(map') : heap'[map'[i].obj].status # "completed"
        ]_vars

\* with maxSize 2 and two completed records stored, a lock on a third key
\* returned true and evicted the older of the two only
C17_Witness ==
    \E a, b, c \in Obj :
        /\ store = "memory" /\ maxSize = 2
        /\ map = << [key |-> MemKey(b), obj |-> b], [key |-> MemKey(c), obj |-> c] >>
        /\ heap[a].status = "completed" /\ heap[a].createdAt = now
        /\ heap[b].status = "completed"
        /\ heap[c].status = "processing"
        /\ a # b /\ a # c
        /\ task[1].op = "lock" /\ task[1].key = MemKey(c) /\ task[1].ret = TRUE

(***************************************************************************)
(* C18                                                                     *)
(***************************************************************************)
\* the calls that have been made are all lock calls
OnlyLocks == \A c \in Call : task[c].pc # "idle" => task[c].op = "lock"

\* C18: a redisStore.lock call is one step that issues one operation, a SET
\* with NX and EX = ttl; it returns true exactly when Redis held no value
\* for the key, and then the key holds the call's record until ttl seconds
\* later; otherwise it returns false and the value is left as it is.  Of
\* the lock calls made on a key that held nothing, before anything can
\* expire, exactly one has returned true.
C18_RedisLockAtomic ==
    /\ []((store = "redis" /\ OnlyLocks /\ now < 1000 * ttl
             /\ \E c \in Call : task[c].pc = "done")
            => Cardinality({ c \in Call : task[c].pc = "done" /\ task[c].ret = TRUE }) = 1)
    /\ [][ \A c \in Call :
             (store = "redis" /\ task[c].pc = "idle" /\ task'[c].op = "lock") =>
                 /\ task'[c].pc = "done"
                 /\ task'[c].ops = <<"SET NX EX">>
                 /\ task'[c].ret = ~Held(client, now)
                 /\ IF Held(client, now)
                    THEN client' = client
                    ELSE client' = [value |-> JSONstringify(makeRecord(StoreKey, now)),
                                    expireAt |-> now + 1000 * ttl] ]_vars

\* two lock calls were made at the same time on the empty key: the first
\* returned true, the second false
C18_Witness ==
    /\ store = "redis"
    /\ now = 0
    /\ task[1].op = "lock" /\ task[1].pc = "done" /\ task[1].ret = TRUE
    /\ task[2].op = "lock" /\ task[2].pc = "done" /\ task[2].ret = FALSE

(***************************************************************************)
(* C19                                                                     *)
(***************************************************************************)
\* what the Redis client or the KV namespace holds for the key
Backend == IF store = "redis" THEN client ELSE kv

\* no time passes between the operations of one call
NoDelay ==
    \A c \in Call :
        /\ ~task[c].late
        /\ task[c].pc \notin {"idle", "done"} => now = task[c].since

\* C19 as stated: when no call is delayed between its operations, a record
\* created at T is not visible at any time later than T + 1000 * ttl.
C19_NeverBeyondTtl ==
    (store \in {"redis", "kv"} /\ NoDelay /\ Held(Backend, now))
        => now <= JSONparse(Backend.value).createdAt + 1000 * ttl

\* C19 (amended): complete writes the record back with
\* max(1, ttl - floor((now - createdAt) / 1000)) seconds to live, the time
\* being the one at which it read the record; when no call is delayed
\* between its operations and complete is called at most once, a record
\* created at T is not visible at T + 1000 * (ttl + 1) or later.
C19_RemainingTtl ==
    /\ []((store \in {"redis", "kv"} /\ NoDelay /\ Held(Backend, now)
             /\ Cardinality({ c \in Call : task[c].op = "complete" }) <= 1)
            => now < JSONparse(Backend.value).createdAt + 1000 * (ttl + 1))
    /\ [][ \A c \in Call :
             (store \in {"redis", "kv"} /\ task[c].op = "complete"
                 /\ task[c].pc \in {"set", "put"} /\ task'[c].pc = "done") =>
                 LET record == JSONparse(Backend'.value)
                     elapsed == (task[c].since - record.createdAt) \div 1000
                 IN  /\ record.status = "completed"
                     /\ record.response = makeResponse
                     /\ Backend'.expireAt =
                          now + 1000 * (IF ttl - elapsed < 1 THEN 1 ELSE ttl - elapsed) ]_vars

\* a record created at T was completed half a second later and is still
\* visible after T + 1000 * ttl
C19_Witness ==
    /\ store \in {"redis", "kv"}
    /\ NoDelay
    /\ Held(Backend, now)
    /\ JSONparse(Backend.value).status = "completed"
    /\ now > JSONparse(Backend.value).createdAt + 1000 * ttl
    /\ Cardinality({ c \in Call : task[c].op = "complete" }) = 1

(***************************************************************************)
(* C20                                                                     *)
(***************************************************************************)
\* C20: a kvStore.lock call that finds a record returns false having issued
\* its get only; otherwise it writes the record with its own lockId, reads
\* the key back and returns true exactly when the value read back carries
\* that lockId: a value written by another call, whatever its fingerprint,
\* or no value makes it return false although it has written.
C20_KvLockReadBack ==
    /\ [][ \A c \in Call :
             (store = "kv" /\ task[c].pc = "idle" /\ task'[c].op = "lock") =>
                 IF Held(kv, now)
                 THEN /\ task'[c].pc = "done"
                      /\ task'[c].ret = FALSE
                      /\ task'[c].ops = <<"get">>
                      /\ kv' = kv
                 ELSE /\ task'[c].pc = "put"
                      /\ task'[c].tmp.lockId = c ]_vars
    /\ [][ \A c \in Call :
             (store = "kv" /\ task[c].op = "lock" /\ task[c].pc = "readback"
                 /\ task'[c].pc = "done") =>
                 /\ task'[c].ops = <<"get", "put", "get">>
                 /\ task'[c].ret = (Held(kv, now) /\ JSONparse(kv.value).lockId = c)
                 /\ kv' = kv ]_vars

\* two lock calls both found the key empty and both wrote a record with
\* the same fingerprint; the first read back the record of the second and
\* returned false, the second returned true
C20_Witness ==
    /\ store = "kv"
    /\ task[1].op = "lock" /\ task[1].pc = "done" /\ task[1].ret = FALSE
    /\ task[1].ops = <<"get", "put", "get">>
    /\ task[2].op = "lock" /\ task[2].pc = "done" /\ task[2].ret = TRUE
    /\ Held(kv, now)
    /\ JSONparse(kv.value).lockId = 2
    /\ JSONparse(kv.value).fingerprint = makeRecord(StoreKey, now).fingerprint

(***************************************************************************)
(* C21: two kvStore.lock calls that race on the same absent key            *)
(***************************************************************************)
\* calls c and d both found the key absent in their first read, wrote and
\* read back, with no time passing and no other call made
RacedLocks(c, d) ==
    /\ c # d
    /\ \A b \in {c, d} :
          /\ task[b].op = "lock" /\ task[b].pc = "done"
          /\ task[b].ops = <<"get", "put", "get">>
          /\ ~task[b].late
    /\ \A b \in Call \ {c, d} : task[b].pc = "idle"
    /\ now = 0

\* C21: against a namespace that answers every get with the value written
\* last, when two kvStore.lock calls race on the same absent key, under every
\* interleaving of their read, write and read-back steps exactly one returns
\* true and the other returns false.
C21_KvRaceExactlyOne ==
    \A c, d \in Call :
       RacedLocks(c, d) => (task[c].ret = TRUE) # (task[d].ret = TRUE)

(***************************************************************************)
(* C22: the key is validated before anything else happens                  *)
(***************************************************************************)
\* the request of r is one the middleware applies to: its method is covered
\* and skipRequest does not opt it out
Covered(r) ==
    /\ Started(r)
    /\ input[r].method \in options.methods
    /\ input[r].path \notin options.skipRequest

\* r was answered with the problem response of the given status and code,
\* its handler was not invoked and it called no store method
RejectedWith(r, status, code) ==
    /\ Done(r) /\ outcome[r] = "rejected"
    /\ resp[r].status = status /\ resp[r].body = <<code, 0>>
    /\ ~ran[r]
    /\ calls[r] = <<>>

C23_BodySizeLimit ==
    /\ [](\A r \in Req :
            (Started(r) /\ options.maxBodySize # <<>>) =>
               IF Len(input[r].body) > options.maxBodySize[1]
               THEN RejectedWith(r, 413, "BODY_TOO_LARGE")
               ELSE /\ outcome[r] # "rejected"
                    /\ calls[r] # <<>> /\ calls[r][1] = "get"
                    /\ outcome[r] = "completed" => ran[r] /\ Is2xx(resp[r].status))
    /\ [][ \A r \in Req :
             (ReceiveStep(r) /\ outcome'[r] = "rejected") =>
                map' = map /\ heap' = heap /\ pc'[r] = "done" /\ ~ran'[r] ]_vars

(***************************************************************************)
(* C24: bypassed requests                                                  *)
(***************************************************************************)
\* the request in is one the claim calls bypassed
IsBypass(in) ==
    \/ in.method \notin options.methods
    \/ in.path \in options.skipRequest
    \/ in.key = <<>> /\ ~options.required

\* the response is what the handler of request r itself produced
OwnResult(r, response) ==
    \E result \in HandlerResults(r) : response = result.res

\* C24: a bypassed request (method not in the configured methods,
\* skipRequest returning true, or key header absent while required is false)
\* is handed to the handler unconditionally every time it is sent: the store
\* is neither read nor written, no hook is called, and repeating it with the
\* same key executes the handler again.
C24_BypassDelegates ==
    /\ [](\A r \in Req :
            (Started(r) /\ IsBypass(input[r])) =>
               /\ ran[r]
               /\ calls[r] = <<>>
               /\ hooks[r] = <<>>
               /\ pc[r] \in {"passing", "done"}
               /\ Done(r) => outcome[r] = "bypassed" /\ OwnResult(r, resp[r]))
    /\ [][ \A r \in Req :
             (pc'[r] # pc[r] /\ IsBypass(input'[r])) =>
                map' = map /\ heap' = heap ]_vars

\* the same skipped request, with its key, was sent twice and the handler
\* answered each time
C24_Witness ==
    \E q, r \in Req :
       /\ q # r /\ input[q] = input[r]
       /\ input[q].path \in options.skipRequest /\ input[q].key # <<>>
       /\ Done(q) /\ Done(r) /\ ran[q] /\ ran[r]
       /\ resp[q].status = 201 /\ resp[r].status = 201
       /\ resp[q] # resp[r]

(***************************************************************************)
(* C25: hooks that throw                                                   *)
(***************************************************************************)
\* the record r holds the store key of r with
Holds(r) == MapHas(map, storeKey[r]) /\ MapGet(map, storeKey[r]) = r

\* C25: an exception thrown (or rejection returned) by onCacheHit or
\* onCacheMiss never changes the request's outcome or the store transitions:
\* a replay is still returned, and after a throwing onCacheMiss the handler
\* still runs and the record is still completed or deleted exactly as it
\* would be without the hook, so the lock is never left behind.
C25_HookErrorsSwallowed ==
    /\ [][ \A r \in Req :
             /\ (InspectStep(r) /\ existing[r] # 0
                    /\ inspect(heap[existing[r]], fp[r]) = "replay") =>
                   /\ outcome'[r] = "replay"
                   /\ resp'[r] = replayResponse(heap[existing[r]].response)
                   /\ map' = map /\ heap' = heap
             /\ (InspectStep(r) /\ calls'[r] # calls[r]
                    /\ storeLock(map, heap, storeKey[r], r, heap'[r], now).ok) =>
                   /\ pc'[r] = "executing" /\ ran'[r]
             /\ FinishStep(r) =>
                   \E result \in HandlerResults(r) :
                      IF result.threw \/ ~resOk(result.res.status)
                      THEN /\ map' = storeDelete(map, storeKey[r])
                           /\ heap' = heap
                           /\ resp'[r] = result.res
                      ELSE /\ heap' = storeComplete(map, heap, storeKey[r],
                                                    storedResponse(result.res))
                           /\ map' = map
                           /\ resp'[r] = rebuiltResponse(result.res) ]_vars
    /\ [](\A r \in Req :
            /\ (Done(r) /\ Holds(r)) => heap[r].status = "completed"
            /\ (Done(r) /\ outcome[r] = "thrown") =>
                  ran[r] /\ calls[r] = <<"get", "lock", "delete">>)

\* with hooks that throw, one request ran the handler and completed its
\* record after onCacheMiss threw and another was replayed after onCacheHit
\* threw
C25_Witness ==
    \E q, r \in Req :
       /\ options.onCacheMiss \in {"throws", "rejects"}
       /\ options.onCacheHit \in {"throws", "rejects"}
       /\ hooks[q] = <<"onCacheMiss">> /\ outcome[q] = "completed"
       /\ Holds(q) /\ heap[q].status = "completed"
       /\ hooks[r] = <<"onCacheHit">> /\ outcome[r] = "replay"
       /\ ReplayMarker \in resp[r].headers

(***************************************************************************)
(* C26: the life of a record                                               *)
(***************************************************************************)
\* the store keys the requests have computed, before or after a step
KnownKeys == { storeKey[r] : r \in Req } \cup { storeKey'[r] : r \in Req }

\* C26: in every reachable state of the middleware running over a store,
\* each record created through the middleware is either processing with no
\* response or completed with a response, and no existing record ever goes
\* from completed back to processing; a processing record appears under a
\* store key only when no live record occupies it (after deletion, expiry or
\* eviction).
C26_RecordLifecycle ==
    /\ [](\A o \in Req :
            heap[o] # NoRecord =>
               \/ heap[o].status = "processing" /\ heap[o].response = NoResponse
               \/ heap[o].status = "completed" /\ heap[o].response # NoResponse)
    /\ [][ /\ \A o \in Req :
                heap[o].status = "completed" => heap'[o].status = "completed"
           /\ \A sk \in KnownKeys :
                (/\ MapHas(map', sk)
                 /\ heap'[MapGet(map', sk)].status = "processing"
                 /\ ~(MapHas(map, sk) /\ MapGet(map, sk) = MapGet(map', sk))) =>
                   ~Live(sk) ]_vars

\* a record was completed and has expired, and another request holds a fresh
\* processing record under the same store key
C26_Witness ==
    \E q, r \in Req :
       /\ q # r /\ storeKey[q] = storeKey[r]
       /\ heap[q].status = "completed" /\ heap[q].response # NoResponse
       /\ ~Holds(q)
       /\ Holds(r) /\ heap[r].status = "processing" /\ heap[r].response = NoResponse
       /\ pc[r] = "executing"

(***************************************************************************)
(* C28: purge of the in-memory and durable object stores                   *)
(***************************************************************************)
\* the record is expired at time t: t - createdAt >= ttl
ExpiredAt(record, t) == t - record.createdAt >= ttl

\* the objects in the map of the in-memory store that purge removes in this
\* step
MemRemoved == MapObjs(map) \ MapObjs(map')

\* call c of the durable object store returns from purge in this step
PurgeReturns(c) ==
    /\ store = "durable-object"
    /\ task[c].pc # "done" /\ task'[c].pc = "done" /\ task'[c].op = "purge"

\* what storage.list() answered to the purge call c that returns in this
\* step, and the time at which the call was made
Listed(c) == IF task[c].pc = "idle" THEN storage ELSE task[c].tmp.entries

CalledAt(c) == IF task[c].pc = "idle" THEN now ELSE task[c].since

\* the keys whose listed record is gone when purge call c returns
DoRemoved(c) == { k \in DoKeys : Listed(c)[k] # Undefined /\ storage'[k] = Undefined }

\* C28: purge in the in-memory and durable-object stores removes exactly the
\* records that are expired at the time of the call (now - createdAt >= ttl),
\* leaves every live record unchanged, and returns the number of records it
\* removed (0 on an empty store or when nothing is expired).  The in-memory
\* purge is one step.  The durable object purge awaits storage between its
\* examinations of the records, so the time of the call runs from the call
\* to its return: every record expired when purge is called is removed, every
\* record removed is expired, and every record still live at the return is
\* left as it was.
C28_PurgeRemovesExpired ==
    /\ [][ (store = "memory" /\ MemCall("purge", <<>>)) =>
              /\ MemRemoved = { o \in MapObjs(map) : ExpiredAt(heap[o], now) }
              /\ map' = SelectSeq(map, LAMBDA e : e.obj \notin MemRemoved)
              /\ heap' = heap
              /\ task'[1].ret = Cardinality(MemRemoved) ]_vars
    /\ [][ \A c \in Call :
             PurgeReturns(c) =>
                /\ task'[c].ret = Cardinality(DoRemoved(c))
                /\ \A k \in DoKeys :
                     IF Listed(c)[k] = Undefined
                     THEN storage'[k] = Undefined
                     ELSE /\ ExpiredAt(Listed(c)[k], CalledAt(c)) => k \in DoRemoved(c)
                          /\ k \in DoRemoved(c) => ExpiredAt(Listed(c)[k], now)
                          /\ k \notin DoRemoved(c) => storage'[k] = Listed(c)[k] ]_vars

\* purge has just returned 1 and the store holds one record, which has not
\* expired
C28_Witness ==
    \/ /\ store = "memory"
       /\ task[1].op = "purge" /\ task[1].ret = 1
       /\ Len(map) = 1 /\ ~ExpiredAt(heap[map[1].obj], now)
    \/ /\ store = "durable-object"
       /\ \E c \in Call : task[c].op = "purge" /\ task[c].pc = "done" /\ task[c].ret = 1
       /\ \E k \in DoKeys : storage[k] # Undefined /\ ~ExpiredAt(storage[k], now)
       /\ \E k \in DoKeys : storage[k] = Undefined

(***************************************************************************)
(* C27: complete and delete on a key without record                        *)
(***************************************************************************)
\* call c makes, in this step, a call of complete or delete
CompleteOrDeleteCalled(c) ==
    task[c].pc = "idle" /\ task'[c].op \in {"complete", "delete"}

\* what the store of a backend other than the in-memory one holds for key k
\* at time t: the rows of the key, or the value that has not expired
BackendHolds(d, cl, kvns, st, k, t) ==
    CASE store = "d1" -> { row \in d.rows : row.key = k }
      [] store = "redis" -> IF Held(cl, t) THEN {cl.value} ELSE {}
      [] store = "kv" -> IF Held(kvns, t) THEN {kvns.value} ELSE {}
      [] OTHER -> IF st[k] = Undefined THEN {} ELSE {st[k]}

\* everything a backend other than the in-memory one holds at time t
BackendContent(d, cl, kvns, st, t) ==
    CASE store = "d1" -> d.rows
      [] store = "redis" -> IF Held(cl, t) THEN {cl.value} ELSE {}
      [] store = "kv" -> IF Held(kvns, t) THEN {kvns.value} ELSE {}
      [] OTHER -> { st[k] : k \in DoKeys } \ {Undefined}

\* C27: in every store, complete on a key that has no record creates nothing
\* and delete on a key that has no record removes nothing: the call returns
\* (it does not raise) and the whole store is as it was before the call.
C27_AbsentKeyNoOp ==
    /\ [][ (store = "memory" /\ now' = now
            /\ task'[1].op \in {"complete", "delete"}
            /\ ~MapHas(map, task'[1].key)) =>
              map' = map /\ heap' = heap /\ task'[1].ret = "void" ]_vars
    /\ [][ \A c \in Call :
             (store # "memory" /\ CompleteOrDeleteCalled(c)
              /\ BackendHolds(d1, client, kv, storage, task'[c].key, now) = {}) =>
                /\ task'[c].pc = "done" /\ task'[c].ret = "void"
                /\ BackendContent(d1', client', kv', storage', now)
                     = BackendContent(d1, client, kv, storage, now) ]_vars

\* complete and delete have both been called on a store in which no record
\* was ever written, every call has returned and the store is empty
C27_Witness ==
    /\ store = "d1"
    /\ \A c \in Call : task[c].pc = "done" /\ task[c].op \in {"complete", "delete"}
    /\ \E c \in Call : task[c].op = "complete"
    /\ \E c \in Call : task[c].op = "delete"
    /\ d1.rows = {}

(***************************************************************************)
(* C29: purge of the D1 store                                              *)
(***************************************************************************)
\* the rows older than the TTL threshold, which get hides
D1ExpiredRows == { row \in d1.rows : row.created_at < ttlThreshold(now) }

\* C29: the D1 store implements purge: a call of purge deletes every row
\* whose created_at is older than the TTL threshold, leaves the live rows in
\* place and returns (it does not raise) the number of rows it deleted.
C29_D1PurgeDeletesExpired ==
    [][ \A c \in Call :
          (store = "d1" /\ task[c].pc = "idle" /\ task'[c].op = "purge") =>
             /\ task'[c].pc = "done"
             /\ d1'.rows = d1.rows \ D1ExpiredRows
             /\ task'[c].ret = Cardinality(D1ExpiredRows) ]_vars

(***************************************************************************)
(* C30: serialization failures in the Redis and KV stores                  *)
(***************************************************************************)
\* the store holds, under the key, a string that is not JSON
HoldsCorrupt ==
    \/ store = "redis" /\ Held(client, now) /\ ~parses(client.value)
    \/ store = "kv" /\ Held(kv, now) /\ ~parses(kv.value)

\* C30: the Redis and KV stores never raise on a serialization or
\* deserialization failure: no call of theirs ends by raising, get of a
\* corrupt stored payload returns absent, and complete on a corrupt stored
\* payload returns leaving what is stored as it is.
C30_NoRaiseOnSerialization ==
    [][ \A c \in Call :
          /\ task'[c].pc # "raised"
          /\ (task[c].pc = "idle" /\ task'[c].op = "get" /\ HoldsCorrupt) =>
                task'[c].pc = "done" /\ task'[c].ret = Undefined
          /\ (task[c].pc = "idle" /\ task'[c].op = "complete" /\ HoldsCorrupt) =>
                task'[c].pc = "done" /\ client' = client /\ kv' = kv ]_vars

(***************************************************************************)
(* C31: problemResponse                                                    *)
(***************************************************************************)
\* call c of problemResponse has ended
ProblemCalled(c) == task[c].op = "problemResponse" /\ task[c].pc \in {"done", "raised"}

\* the status the response of the call is to have
ExpectedStatus(call) ==
    IF call.stringifies /\ ~call.status.nan
       /\ call.status.val >= 200 /\ call.status.val <= 599
    THEN call.status.val
    ELSE 500

\* call c returned a response of the expected status with the extra headers
ProblemAnswered(c) ==
    /\ task[c].pc = "done"
    /\ task[c].ret.status = ExpectedStatus(task[c].key)
    /\ task[c].ret.status >= 200 /\ task[c].ret.status <= 599
    /\ Headers(task[c].key.extraHeaders) \subseteq task[c].ret.headers

\* C31 as stated: problemResponse never throws and always yields a status
\* in 200..599: problem.status when that is an integer within 200..599, 500
\* when it is below 200, above 599 or NaN or when serializing the problem
\* fails, with the extra headers attached in every case.
C31_NeverThrows ==
    \A c \in Call : ProblemCalled(c) => ProblemAnswered(c)

\* problemResponse makes a Response with a body of this call's status
NullBodyCase(call) == call.stringifies /\ ExpectedStatus(call) \in NullBodyStatuses

\* C31: problemResponse yields a response with a status in 200..599
\* (problem.status when that is an integer within 200..599, 500 when it is
\* below 200, above 599 or NaN or when serializing the problem fails) and
\* with the extra headers attached, and does not throw, unless the problem
\* serializes and its status is 204, 205 or 304: a Response of such a status
\* cannot have a body and problemResponse throws the TypeError of the
\* Response constructor.
C31_ClampedUnlessNullBody ==
    \A c \in Call :
        ProblemCalled(c) =>
            IF NullBodyCase(task[c].key)
            THEN task[c].pc = "raised" /\ task[c].ret = "TypeError"
            ELSE ProblemAnswered(c)

\* problemResponse has answered 500 with Retry-After for a problem that
\* did not serialize, and 500 for a status of NaN
C31_Witness ==
    /\ \E c \in Call :
          /\ ProblemCalled(c) /\ ~task[c].key.stringifies
          /\ task[c].key.status = Num(204)
          /\ task[c].pc = "done" /\ task[c].ret.status = 500
          /\ <<"retry-after", "1">> \in task[c].ret.headers
    /\ \E c \in Call :
          /\ ProblemCalled(c) /\ task[c].key.stringifies
          /\ task[c].key.status = NaN
          /\ task[c].pc = "done" /\ task[c].ret.status = 500

(***************************************************************************)
(* C32: what complete leaves alone                                         *)
(***************************************************************************)
\* the fields of a record that identify it and date it
Identity(record) == <<record.key, record.fingerprint, record.createdAt>>

RowIdentity(row) == <<row.key, row.fingerprint, row.created_at>>

\* call c of the store makes this step as part of a call of complete
CompleteStep(c) == task'[c].op = "complete" /\ task'[c] # task[c]

\* C32: in every store, complete changes only the record's status and
\* response: the key, fingerprint and createdAt of the record are the same
\* before and after the call (and no other record changes).  In the
\* in-memory, D1 and durable object stores each step of complete leaves them
\* as they are in the store; the Redis and KV stores write back the record
\* that complete read, with the key, fingerprint and createdAt it read.
C32_CompleteKeepsIdentity ==
    /\ [][ (store = "memory" /\ now' = now /\ task'[1].op = "complete") =>
              /\ map' = map
              /\ \A o \in Obj :
                   /\ Identity(heap'[o]) = Identity(heap[o])
                   /\ o # MapGet(map, task'[1].key) => heap'[o] = heap[o] ]_vars
    /\ [][ \A c \in Call :
             (store = "d1" /\ CompleteStep(c)) =>
                /\ { RowIdentity(row) : row \in d1'.rows }
                     = { RowIdentity(row) : row \in d1.rows }
                /\ Cardinality(d1'.rows) = Cardinality(d1.rows)
                /\ \A row \in d1.rows : row.key # task'[c].key => row \in d1'.rows ]_vars
    /\ [][ \A c \in Call :
             (store = "durable-object" /\ CompleteStep(c)) =>
                \A k \in DoKeys :
                   IF storage[k] = Undefined \/ k # task'[c].key
                   THEN storage'[k] = storage[k]
                   ELSE storage'[k] # Undefined
                        /\ Identity(storage'[k]) = Identity(storage[k]) ]_vars
    /\ [][ \A c \in Call :
             (store = "redis" /\ CompleteStep(c)) =>
                /\ task'[c].pc = "set" =>
                     /\ client' = client
                     /\ Identity(JSONparse(task'[c].tmp.value))
                          = Identity(JSONparse(client.value))
                /\ task[c].pc = "set" =>
                     client'.value = task[c].tmp.value
                /\ (task[c].pc = "idle" /\ task'[c].pc = "done") => client' = client ]_vars
    /\ [][ \A c \in Call :
             (store = "kv" /\ CompleteStep(c)) =>
                /\ task'[c].pc = "put" =>
                     /\ kv' = kv
                     /\ Identity(JSONparse(task'[c].tmp.value))
                          = Identity(JSONparse(kv.value))
                /\ task[c].pc = "put" =>
                     kv'.value = task[c].tmp.value
                /\ (task[c].pc = "idle" /\ task'[c].pc = "done") => kv' = kv ]_vars

\* a record locked at an earlier time has been completed and keeps its
\* creation time
C32_Witness ==
    /\ store = "memory"
    /\ task[1].op = "complete"
    /\ now > 0
    /\ \E i \in 1..Len(map) :
          /\ map[i].key = task[1].key
          /\ heap[map[i].obj].status = "completed"
          /\ heap[map[i].obj].createdAt = 0

(***************************************************************************)
(* C33: the response of a completed record                                 *)
(***************************************************************************)
\* C33: once a record is completed, its stored response is never changed
\* for as long as that record exists: under any interleaving of requests
\* through the middleware, no later complete overwrites the response of an
\* already completed record.
C33_ResponseWrittenOnce ==
    [][ \A o \in MapObjs(map) :
          (heap[o].status = "completed" /\ o \in MapObjs(map')) =>
             heap'[o].response = heap[o].response ]_vars

(***************************************************************************)
(* C34: when the hooks are called                                          *)
(***************************************************************************)
\* request r has acquired the lock
Acquired(r) == pc[r] = "executing" \/ outcome[r] \in {"completed", "failed", "thrown"}

\* the hooks request r is to have called so far
HooksDue(r) ==
    IF Acquired(r) THEN <<"onCacheMiss">>
    ELSE IF outcome[r] = "replay" THEN <<"onCacheHit">>
    ELSE <<>>

\* C34: with both hooks given, onCacheMiss is called exactly once for each
\* request that acquires the lock, in the step in which its lock returns
\* true and its handler starts (also on a retry after an earlier failure
\* released the key); onCacheHit is called exactly once for each replay, in
\* the step that returns the replayed response; neither hook is called for a
\* bypassed, rejected, conflicting or fingerprint-mismatched request.
C34_HooksCalledOnce ==
    /\ [](\A r \in Req : hooks[r] = HooksDue(r))
    /\ [][ \A r \in Req :
             hooks'[r] # hooks[r] =>
                /\ InspectStep(r)
                /\ IF existing[r] # 0 /\ heap[existing[r]].status = "completed"
                   THEN /\ heap[existing[r]].fingerprint = fp[r]
                        /\ hooks'[r] = <<"onCacheHit">>
                        /\ resp'[r] = replayResponse(heap[existing[r]].response)
                        /\ calls'[r] = calls[r]
                   ELSE /\ existing[r] = 0
                        /\ hooks'[r] = <<"onCacheMiss">>
                        /\ calls'[r] = Append(calls[r], "lock")
                        /\ ~ran[r] /\ ran'[r] /\ pc'[r] = "executing" ]_vars
    /\ [](\A r \in Req :
            (\/ bypassed(options, input[r]) /\ pc[r] # "idle"
             \/ outcome[r] \in {"bypassed", "rejected", "conflict", "mismatch"}) =>
               hooks[r] = <<>>)

\* before any record could expire, one request's handler failed, which
\* released the key, and a retry with the same key ran the handler and was
\* completed; each called onCacheMiss once
C34_Witness ==
    \E q, r \in Req :
       /\ now = 0
       /\ storeKey[q] = storeKey[r]
       /\ outcome[q] = "failed" /\ hooks[q] = <<"onCacheMiss">>
       /\ outcome[r] = "completed" /\ hooks[r] = <<"onCacheMiss">>

(***************************************************************************)
(* C35: one lock call and one handler run for each request                 *)
(***************************************************************************)
\* the number of calls of store.lock request r has made
LockCalls(r) == Cardinality({ i \in 1..Len(calls[r]) : calls[r][i] = "lock" })

\* the handler of request r starts in this step
HandlerStarts(r) == pc'[r] \in {"executing", "passing"} /\ pc'[r] # pc[r]

\* request r carries a key for a covered method (and is not skipped)
KeyedCovered(r) == Covered(r) /\ input[r].key # <<>>

\* C35: each request calls store.lock at most once and invokes the handler
\* at most once, and a request that carries a key for a covered method
\* invokes the handler only after its own lock call returned true (in the
\* step of that call); a lock call that returns false ends the request with
\* 409 and is never retried.
C35_LockOnceHandlerOnce ==
    /\ [](\A r \in Req : LockCalls(r) <= 1)
    /\ [][ \A r \in Req :
             /\ HandlerStarts(r) => ~ran[r] /\ ran'[r]
             /\ ran[r] => ran'[r]
             /\ pc[r] = "done" => pc'[r] = "done" /\ calls'[r] = calls[r]
             /\ (HandlerStarts(r) /\ KeyedCovered(r)') =>
                   /\ calls'[r] = Append(calls[r], "lock")
                   /\ storeLock(map, heap, storeKey[r], r, heap'[r], now).ok
                   /\ MapGet(map', storeKey[r]) = r
             /\ (InspectStep(r) /\ calls'[r] # calls[r]
                    /\ ~storeLock(map, heap, storeKey[r], r,
                                  [key |-> input[r].key, fingerprint |-> fp[r],
                                   status |-> "processing", response |-> NoResponse,
                                   createdAt |-> now], now).ok) =>
                   /\ pc'[r] = "done" /\ ~ran'[r]
                   /\ outcome'[r] = "conflict" /\ resp'[r] = Conflict409 ]_vars
    /\ [](\A r \in Req : (KeyedCovered(r) /\ ran[r]) => LockCalls(r) = 1)

\* a request whose lock call returned false has ended with 409 after that
\* one call, without running its handler, while the holder of the key runs
\* its handler
C35_Witness ==
    \E q, r \in Req :
       /\ q # r /\ storeKey[q] = storeKey[r]
       /\ pc[q] = "executing" /\ calls[q] = <<"get", "lock">>
       /\ pc[r] = "done" /\ outcome[r] = "conflict" /\ ~ran[r]
       /\ calls[r] = <<"get", "lock">>

(***************************************************************************)
(* C36: one handler at a time for a store key                              *)
(***************************************************************************)
\* no record has reached its TTL while the handler of the request that
\* locked it is running
HeldWhileRunning ==
    \A r \in Req : pc[r] = "executing" => now - heap[r].createdAt < ttl

\* at most one handler is running for each store key
OneHandlerPerKey ==
    \A q, r \in Req :
       (pc[q] = "executing" /\ pc[r] = "executing" /\ storeKey[q] = storeKey[r]) => q = r

\* C36: in every behaviour of the middleware over the in-memory store in
\* which no record reaches its TTL while its handler is still running
\* (handlers may fail and clients retry), at most one handler execution is in
\* progress for a given store key at any moment.
C36_OneHandlerWhileHeld == []HeldWhileRunning => []OneHandlerPerKey

\* a handler failed, which released the key, and the retry is running its
\* handler with its record in place
C36_Witness ==
    \E q, r \in Req :
       /\ storeKey[q] = storeKey[r]
       /\ outcome[q] = "failed"
       /\ pc[r] = "executing" /\ Holds(r)
       /\ now - heap[r].createdAt < ttl /\ now - heap[q].createdAt < ttl

(***************************************************************************)
(* C37: whose record the delete after a failure removes                    *)
(***************************************************************************)
\* request r deletes its store key in this step (its handler has failed)
DeleteStep(r) == FinishStep(r) /\ calls'[r] = Append(calls[r], "delete")

Settled(r) ==
    \/ ~Holds(r)
    \/ heap[r].status = "completed" /\ heap[r].response # NoResponse

\* C39: when handlers return or throw and the store operations succeed,
\* every request that acquired the lock eventually finishes, and from the
\* moment it has finished the record it locked is either completed with a
\* response or deleted: no record is left in processing state once the
\* request that locked it has finished.
C39_NoRecordLeftProcessing ==
    /\ \A r \in Req : pc[r] = "executing" ~> (pc[r] = "done" /\ Settled(r))
    /\ [](\A r \in Req : (pc[r] = "done" /\ Acquired(r)) => Settled(r))

\* one request's handler failed and its record is gone, and another
\* request's handler returned and its record is completed
C39_Witness ==
    \E q, r \in Req :
       /\ outcome[q] \in {"failed", "thrown"} /\ q \notin MapObjs(map)
       /\ outcome[r] = "completed" /\ Holds(r)
       /\ heap[r].status = "completed" /\ heap[r].response # NoResponse

====
